---- MODULE Spec2Model ----
(***************************************************************************)
(* Configuration resolution of ESLint: lib/config.js (Config),             *)
(* lib/config/config-cache.js (ConfigCache) and lib/config/config-ops.js   *)
(* (merge, normalize, getConfigFromVector, ...).                           *)
(*                                                                         *)
(* JavaScript values are tagged pairs <<tag, payload>>:                    *)
(*   <<"undef", 0>>          undefined                                     *)
(*   <<"null", 0>>           null                                          *)
(*   <<"num", n>>  <<"str", s>>  <<"bool", b>>   scalars                    *)
(*   <<"fn", name>>          a function object                             *)
(*   <<"arr", seq>>          an array, seq its elements                    *)
(*   <<"obj", seq>>          an object, seq its <<key, value>> pairs in    *)
(*                           insertion order (the order of Object.keys)    *)
(***************************************************************************)
EXTENDS Integers, Sequences, FiniteSets, TLC

\* ------------------------------------------------------------ JS values

Undef == <<"undef", 0>>
Null == <<"null", 0>>
N(n) == <<"num", n>>
S(s) == <<"str", s>>
B(b) == <<"bool", b>>
Fn(name) == <<"fn", name>>
A(elems) == <<"arr", elems>>
O(pairs) == <<"obj", pairs>>
EmptyObj == O(<<>>)
EmptyArr == A(<<>>)

Tag(v) == v[1]
Val(v) == v[2]

\* Array.isArray(v)
IsArray(v) == Tag(v) = "arr"
\* v is a plain (non-array) object
IsPlainObject(v) == Tag(v) = "obj"
\* typeof v === "object" (null is never an operand of merge in the model)
TypeofObject(v) == Tag(v) \in {"arr", "obj"}
\* the truthiness of v in a condition
Truthy(v) ==
    CASE Tag(v) \in {"undef", "null"} -> FALSE
      [] Tag(v) = "bool" -> Val(v)
      [] Tag(v) = "num" -> Val(v) # 0
      [] Tag(v) = "str" -> Val(v) # ""
      [] OTHER -> TRUE

\* the elements of a sequence
Range(s) == {s[i] : i \in 1..Len(s)}

\* the own keys of a plain object: Object.keys(o) as a set
KeySet(o) == IF IsPlainObject(o) THEN {Val(o)[i][1] : i \in 1..Len(Val(o))} ELSE {}
\* k in o (own property)
Has(o, k) == k \in KeySet(o)
\* o[k]: undefined when o is not an object or lacks k
Get(o, k) ==
    IF Has(o, k)
    THEN Val(o)[CHOOSE i \in 1..Len(Val(o)) : Val(o)[i][1] = k][2]
    ELSE Undef
\* o[k] = v: an existing key keeps its place, a new key goes last
Put(o, k, v) ==
    IF Has(o, k)
    THEN O([i \in 1..Len(Val(o)) |-> IF Val(o)[i][1] = k THEN <<k, v>> ELSE Val(o)[i]])
    ELSE O(Append(Val(o), <<k, v>>))
\* delete o[k]
Delete(o, k) == O(SelectSeq(Val(o), LAMBDA p : p[1] # k))
\* a[i] with i counted from 1: undefined past the end or on a non-array
At(a, i) == IF IsArray(a) /\ i \in 1..Len(Val(a)) THEN Val(a)[i] ELSE Undef
\* [].concat(v): the elements of an array, or the value itself as one element
ConcatArg(v) == IF IsArray(v) THEN Val(v) ELSE <<v>>

\* ------------------------------------------------------------ config-ops.js: merge

\* the value standing for a TypeError raised while reading a property of undefined
Throw == <<"throw", "TypeError">>

RECURSIVE merge(_, _, _, _)
RECURSIVE MergeArrayLoop(_, _, _, _, _, _)
RECURSIVE MergeObjectLoop(_, _, _, _, _, _)

\* the copy loop left out: dst starts empty
CopyTarget_none(target) == EmptyObj

\* Object.keys(target).forEach(key => dst[key] = target[key]) on an empty dst
CopyTarget(target) == IF IsPlainObject(target) THEN target ELSE EmptyObj

\* overrides treated like a scalar key: src replaces target
ConcatOverrides_replace(tv, sv) == sv

\* (target[key] || []).concat(src[key] || [])
ConcatOverrides(tv, sv) ==
    A(ConcatArg(IF Truthy(tv) THEN tv ELSE EmptyArr) \o ConcatArg(IF Truthy(sv) THEN sv ELSE EmptyArr))

\* a leaf of src kept out when target has the key already
LeafValue_keep(tv, sv) == IF tv = Undef THEN sv ELSE tv

\* dst[key] = src[key] for a value of src that is not merged into
LeafValue(tv, sv) == sv

\* the array branch started from target whatever src is
ArrayStart_target(target, src, isRule) == ConcatArg(target)

\* the array branch started from any rule array of src, a one-element one included
ArrayStart_any(target, src, isRule) ==
    IF isRule /\ IsArray(src) THEN Val(src) ELSE ConcatArg(target)

\* dst = dst.concat(src) for a rule array of more than one element, else
\* dst = dst.concat(target)
ArrayStart(target, src, isRule) ==
    IF isRule /\ IsArray(src) /\ Len(Val(src)) > 1
    THEN Val(src)
    ELSE ConcatArg(target)

\* the body of Object.keys(src).forEach((e, i) => ...) of the array branch, from index i on;
\* dst and srcElems are sequences, target is the (defaulted) target value
MergeArrayLoop(dst, target, srcElems, i, combine, isRule) ==
    IF i > Len(srcElems) THEN dst
    ELSE LET e == srcElems[i]
             next ==
                 IF i > Len(dst) \/ dst[i] = Undef
                 THEN IF i > Len(dst) THEN Append(dst, e) ELSE [dst EXCEPT ![i] = e]
                 ELSE IF TypeofObject(e)
                 THEN IF isRule
                      THEN [dst EXCEPT ![i] = e]
                      ELSE [dst EXCEPT ![i] = merge(At(target, i), e, combine, isRule)]
                 ELSE IF ~combine
                 THEN [dst EXCEPT ![i] = e]
                 ELSE IF e \notin Range(dst) THEN Append(dst, e) ELSE dst
         IN  MergeArrayLoop(next, target, srcElems, i + 1, combine, isRule)

\* the body of Object.keys(src).forEach(key => ...) of the mapping branch, from key i on
MergeObjectLoop(dst, target, src, i, combine, isRule) ==
    IF i > Len(Val(src)) THEN dst
    ELSE LET key == Val(src)[i][1]
             sv == Val(src)[i][2]
             tv == Get(target, key)
             value ==
                 IF key = "overrides"
                 THEN ConcatOverrides(tv, sv)
                 ELSE IF IsArray(sv) \/ IsArray(tv)
                 THEN merge(tv, sv, key = "plugins", isRule)
                 ELSE IF ~TypeofObject(sv) \/ ~Truthy(sv) \/ key = "exported" \/ key = "astGlobals"
                 THEN LeafValue(tv, sv)
                 ELSE merge(IF Truthy(tv) THEN tv ELSE EmptyObj, sv, combine, key = "rules")
         IN  MergeObjectLoop(Put(dst, key, value), target, src, i + 1, combine, isRule)

\* ConfigOps.merge(target, src, combine, isRule)
merge(target, src, combine, isRule) ==
    IF IsArray(src) \/ IsArray(target)
    THEN LET target0 == IF Truthy(target) THEN target ELSE EmptyArr
             dst0 == ArrayStart(target0, src, isRule)
             \* a scalar src is wrapped; an object src is walked by its keys, src[i] undefined
             srcElems == IF ~TypeofObject(src) THEN <<src>>
                         ELSE IF IsArray(src) THEN Val(src)
                         ELSE [i \in 1..Len(Val(src)) |-> Undef]
         IN  A(MergeArrayLoop(dst0, target0, srcElems, 1, combine, isRule))
    ELSE IF Tag(target) = "undef" /\ Len(Val(src)) > 0
    THEN Throw
    ELSE MergeObjectLoop(CopyTarget(target), target, src, 1, combine, isRule)

\* ------------------------------------------------------------ config-ops.js: severities

RULE_SEVERITY_STRINGS == <<"off", "warn", "error">>

\* RULE_SEVERITY_STRINGS.reduce((map, value, index) => { map[value] = index; ... }, {})
RULE_SEVERITY == O([i \in 1..Len(RULE_SEVERITY_STRINGS) |-> <<RULE_SEVERITY_STRINGS[i], N(i - 1)>>])

\* RULE_SEVERITY[text]: an own entry of the map, else the member the map created from {}
\* inherits from Object.prototype under that name (constructor, the function Object), else
\* undefined
RuleSeverityAt(text) ==
    IF Has(RULE_SEVERITY, text) THEN Get(RULE_SEVERITY, text)
    ELSE IF text = "constructor" THEN Fn("Object")
    ELSE Undef

\* text.toLowerCase() on the severity texts of the model
ToLowerCase(text) ==
    CASE text = "OFF" -> "off"
      [] text = "Warn" -> "warn"
      [] text = "ERROR" -> "error"
      [] OTHER -> text

\* a || b
Or(a, b) == IF Truthy(a) THEN a ELSE b

\* RULE_SEVERITY[ruleConfig.toLowerCase()] || 0
SeverityNumber(text) == Or(RuleSeverityAt(ToLowerCase(text)), N(0))

\* RULE_SEVERITY_STRINGS[n] || RULE_SEVERITY_STRINGS[0]
SeverityString(n) ==
    IF n + 1 \in 1..Len(RULE_SEVERITY_STRINGS)
    THEN S(RULE_SEVERITY_STRINGS[n + 1])
    ELSE S(RULE_SEVERITY_STRINGS[1])

\* the entry of one rule after normalize
normalizeRule(ruleConfig) ==
    IF Tag(ruleConfig) = "str"
    THEN SeverityNumber(Val(ruleConfig))
    ELSE IF IsArray(ruleConfig) /\ Tag(At(ruleConfig, 1)) = "str"
    THEN A([Val(ruleConfig) EXCEPT ![1] = SeverityNumber(Val(At(ruleConfig, 1)))])
    ELSE ruleConfig

\* the entry of one rule after normalizeToStrings
normalizeToStringsRule(ruleConfig) ==
    IF Tag(ruleConfig) = "num"
    THEN SeverityString(Val(ruleConfig))
    ELSE IF IsArray(ruleConfig) /\ Tag(At(ruleConfig, 1)) = "num"
    THEN A([Val(ruleConfig) EXCEPT ![1] = SeverityString(Val(At(ruleConfig, 1)))])
    ELSE ruleConfig

\* ConfigOps.normalize(config): the config as the call leaves it
normalize(config) ==
    IF Truthy(Get(config, "rules"))
    THEN LET rules == Val(Get(config, "rules"))
         IN  Put(config, "rules",
                 O([i \in 1..Len(rules) |-> <<rules[i][1], normalizeRule(rules[i][2])>>]))
    ELSE config

\* ConfigOps.normalizeToStrings(config): the config as the call leaves it
normalizeToStrings(config) ==
    IF Truthy(Get(config, "rules"))
    THEN LET rules == Val(Get(config, "rules"))
         IN  Put(config, "rules",
                 O([i \in 1..Len(rules) |-> <<rules[i][1], normalizeToStringsRule(rules[i][2])>>]))
    ELSE config

VALID_SEVERITIES == <<N(0), N(1), N(2), S("off"), S("warn"), S("error")>>

\* Array.isArray(ruleConfig) ? ruleConfig[0] : ruleConfig
FirstOrSelf(ruleConfig) == IF IsArray(ruleConfig) THEN At(ruleConfig, 1) ELSE ruleConfig

\* ConfigOps.isErrorSeverity(ruleConfig)
isErrorSeverity(ruleConfig) ==
    \E severity \in {IF Tag(FirstOrSelf(ruleConfig)) = "str"
                      THEN SeverityNumber(Val(FirstOrSelf(ruleConfig)))
                      ELSE FirstOrSelf(ruleConfig)} :
        Tag(severity) = "num" /\ severity = N(2)

\* the severity looked up as it is written, its letter case kept
isValidSeverity_exact(ruleConfig) == FirstOrSelf(ruleConfig) \in Range(VALID_SEVERITIES)

\* ConfigOps.isValidSeverity(ruleConfig)
isValidSeverity(ruleConfig) ==
    \E severity \in {IF Tag(FirstOrSelf(ruleConfig)) = "str"
                      THEN S(ToLowerCase(Val(FirstOrSelf(ruleConfig))))
                      ELSE FirstOrSelf(ruleConfig)} :
        severity \in Range(VALID_SEVERITIES)

\* ConfigOps.isEverySeverityValid(config), config being the rules of a config
isEverySeverityValid(config) ==
    \A i \in 1..Len(Val(config)) : isValidSeverity(Val(config)[i][2])

\* ------------------------------------------------------------ the file system and the collaborators

\* the working directory (options.cwd) of every run
Cwd == "/p"
\* a directory below /p whose path holds the separator of the cache keys: the directory a
\* of the directory p of the directory named ".eslintrc," of /p
CommaDirectory == "/p/.eslintrc,/p/a"
\* a file of that directory
CommaFile == "/p/.eslintrc,/p/a/z.js"
\* directories, each with its ancestors nearest first (itself included)
Ancestors ==
    [d \in {"/", "/p", "/p/a", "/p/a/b", "/p/.eslintrc,", "/p/.eslintrc,/p", CommaDirectory} |->
        CASE d = "/" -> <<"/">>
          [] d = "/p/.eslintrc," -> <<"/p/.eslintrc,", "/p", "/">>
          [] d = "/p/.eslintrc,/p" -> <<"/p/.eslintrc,/p", "/p/.eslintrc,", "/p", "/">>
          [] d = CommaDirectory ->
                 <<CommaDirectory, "/p/.eslintrc,/p", "/p/.eslintrc,", "/p", "/">>
          [] d = "/p" -> <<"/p", "/">>
          [] d = "/p/a" -> <<"/p/a", "/p", "/">>
          [] d = "/p/a/b" -> <<"/p/a/b", "/p/a", "/p", "/">>]

\* the files resolve is asked about
Files == {"/p/a/b/x.js", "/p/a/b/y.ts", "/p/a/z.js", "/p/w.js"}
\* the config file a directory may hold
ConfigFileOf(d) == IF d = "/" THEN "/.eslintrc" ELSE d \o "/.eslintrc"
\* the config file named on the command line, after path.resolve(cwd, "cli.json")
CliConfigFile == "/p/cli.json"

\* path.dirname on the paths of the model
Dirname(path) ==
    CASE path \in {"/p/a/b/x.js", "/p/a/b/y.ts", "/p/a/b/.eslintrc"} -> "/p/a/b"
      [] path \in {"/p/a/z.js", "/p/a/.eslintrc"} -> "/p/a"
      [] path \in {"/p/w.js", "/p/.eslintrc", "/p/cli.json"} -> "/p"
      [] path \in {CommaFile, "/p/.eslintrc,/p/a/.eslintrc"} -> CommaDirectory
      [] OTHER -> "/"

\* pathIsInside(child, parent): child is parent or lies below it
pathIsInside(child, parent) == parent \in Range(Ancestors[child])

\* String.prototype.substr(start) on the strings of the model: (filePath).substr(baseDirectory.length + 1)
Substr(str, start) ==
    CASE start = 3 /\ str = "/p/a/b/x.js" -> "a/b/x.js"
      [] start = 3 /\ str = "/p/a/b/y.ts" -> "a/b/y.ts"
      [] start = 3 /\ str = "/p/a/z.js" -> "a/z.js"
      [] start = 3 /\ str = "/p/w.js" -> "w.js"
      [] start = 5 /\ str = "/p/a/b/x.js" -> "b/x.js"
      [] start = 5 /\ str = "/p/a/b/y.ts" -> "b/y.ts"
      [] start = 5 /\ str = "/p/a/z.js" -> "z.js"
      [] start = 5 /\ str = "/p/w.js" -> "js"
      [] start = 7 /\ str = "/p/a/b/x.js" -> "x.js"
      [] start = 7 /\ str = "/p/a/b/y.ts" -> "y.ts"
      [] start = 7 /\ str = "/p/a/z.js" -> "js"
      [] start = 3 /\ str = CommaFile -> ".eslintrc,/p/a/z.js"
      [] start = 18 /\ str = CommaFile -> "z.js"
      [] OTHER -> ""

\* minimatch(path, pattern, { matchBase: true }) on the paths and patterns of the model
minimatch(path, pattern) ==
    CASE pattern = "*.js" -> path \in {"a/b/x.js", "b/x.js", "x.js", "a/z.js", "z.js", "w.js",
                                       ".eslintrc,/p/a/z.js"}
      [] pattern = "*.ts" -> path \in {"a/b/y.ts", "b/y.ts", "y.ts"}
      [] pattern = "b/**" -> path \in {"b/x.js", "b/y.ts"}
      [] OTHER -> FALSE

\* what the config files hold, before loading
RawP ==
    O(<< <<"parser", S("pp")>>,
         <<"rules", O(<< <<"r1", N(1)>>, <<"r2", A(<<S("error"), S("x")>>)>> >>)>>,
         <<"env", O(<< <<"browser", B(TRUE)>> >>)>>,
         <<"globals", O(<< <<"g", B(TRUE)>> >>)>> >>)
RawA ==
    O(<< <<"rules", O(<< <<"r1", N(2)>> >>)>>,
         <<"plugins", A(<<S("x")>>)>>,
         <<"overrides", A(<< O(<< <<"files", A(<<S("*.ts")>>)>>,
                                  <<"rules", O(<< <<"r1", N(0)>> >>)>> >>),
                             O(<< <<"files", A(<<S("*.ts"), S("b/**")>>)>>,
                                  <<"rules", O(<< <<"r3", N(1)>> >>)>> >>) >>)>> >>)
RawB ==
    O(<< <<"parser", S("pb")>>,
         <<"rules", O(<< <<"r1", N(0)>>, <<"r2", N(1)>> >>)>>,
         <<"plugins", A(<<S("x"), S("y")>>)>>,
         <<"overrides", A(<< O(<< <<"files", S("*.js")>>,
                                  <<"rules", O(<< <<"r4", N(2)>> >>)>> >>) >>)>> >>)
RawComma == O(<< <<"root", B(TRUE)>>, <<"rules", O(<< <<"r1", N(0)>>, <<"r7", N(2)>> >>)>> >>)
RawCli == O(<< <<"rules", O(<< <<"r1", N(1)>>, <<"rc", N(2)>> >>)>> >>)

\* The file system of a run, w: cfgP, cfgA, cfgB in {"none", "plain", "root", "empty"},
\* home the personal directory (PERSONAL_CONFIG_DIR), null when there is none.
\* A file system with the field cfgC set to "root" has a config file with root: true in
\* CommaDirectory.
HasCommaConfig(w) == "cfgC" \in DOMAIN w /\ w.cfgC = "root"
\* The parsed content of a config file; undefined for a file that is absent or parses to nothing
Content(w, file) ==
    CASE file = "/p/.eslintrc" /\ w.cfgP = "plain" -> RawP
      [] file = "/p/a/.eslintrc" /\ w.cfgA = "plain" -> RawA
      [] file = "/p/a/.eslintrc" /\ w.cfgA = "root" -> Put(RawA, "root", B(TRUE))
      [] file = "/p/a/b/.eslintrc" /\ w.cfgB = "plain" -> RawB
      [] file = CliConfigFile -> RawCli
      [] file = ConfigFileOf(CommaDirectory) /\ HasCommaConfig(w) -> RawComma
      [] OTHER -> Undef
\* whether the directory holds a config file (an empty one included)
HasConfigFile(w, d) ==
    \/ d = "/p" /\ w.cfgP # "none"
    \/ d = "/p/a" /\ w.cfgA # "none"
    \/ d = "/p/a/b" /\ w.cfgB # "none"
    \/ d = CommaDirectory /\ HasCommaConfig(w)

\* ConfigFile.getFilenameForDirectory(directory): its config file, or null
getFilenameForDirectory(w, d) == IF HasConfigFile(w, d) THEN S(ConfigFileOf(d)) ELSE Undef

\* FileFinder.findAllInDirectoryAndParents(directory): the config files of the directory
\* and its ancestors, nearest first
findLocalConfigFiles(w, directory) ==
    LET anc == SelectSeq(Ancestors[directory], LAMBDA d : HasConfigFile(w, d))
    IN  [i \in 1..Len(anc) |-> ConfigFileOf(anc[i])]

\* a map (a JavaScript Map of the cache) with key k set to v
MapSet(m, k, v) == (k :> v) @@ m
MapGet(m, k) == IF k \in DOMAIN m THEN m[k] ELSE Undef
EmptyMap == [k \in {} |-> Undef]

\* ConfigFile.loadCached(filePath): the cached source of the path, or the file loaded, tagged
\* with filePath and baseDirectory and stored in the shallow-config table.
\* Gives [config, fp]: the source (undefined for an empty file) and the table afterwards.
loadCached(w, fp, filePath) ==
    IF filePath \in DOMAIN fp
    THEN [config |-> fp[filePath], fp |-> fp]
    ELSE LET raw == Content(w, filePath)
         IN  IF raw = Undef
             THEN [config |-> Undef, fp |-> fp]
             ELSE LET config == Put(Put(raw, "filePath", S(filePath)),
                                    "baseDirectory", S(Dirname(filePath)))
                  IN  [config |-> config, fp |-> MapSet(fp, filePath, config)]

\* ------------------------------------------------------------ config-cache.js

\* a vector token as join() prints it
TokenString(t) == IF Tag(t) = "num" THEN ToString(Val(t)) ELSE Val(t)

VECTOR_SEP == ","

RECURSIVE Join(_, _)
\* Array.prototype.join(sep) of a sequence of tokens
Join(vector, sep) ==
    IF Len(vector) = 0 THEN ""
    ELSE IF Len(vector) = 1 THEN TokenString(vector[1])
    ELSE Join(SubSeq(vector, 1, Len(vector) - 1), sep) \o sep \o TokenString(vector[Len(vector)])

\* hash(vector): the tokens joined by the separator
hash(vector) == Join(vector, VECTOR_SEP)

\* an init() that leaves an entry in the final-merge table
init_stale ==
    [filePathCache |-> EmptyMap, localHierarchyCache |-> EmptyMap,
     mergedVectorCache |-> EmptyMap, mergedCache |-> ("" :> EmptyObj)]

\* ConfigCache.init(): four empty tables
init ==
    [filePathCache |-> EmptyMap, localHierarchyCache |-> EmptyMap,
     mergedVectorCache |-> EmptyMap, mergedCache |-> EmptyMap]

\* ConfigCache.getHierarchyLocalConfigs(directory)
getHierarchyLocalConfigs(lh, directory) == MapGet(lh, directory)

RECURSIVE setHierarchyLocalConfigsFrom_short(_, _, _, _)
\* each directory given the hierarchy of the directory above it
setHierarchyLocalConfigsFrom_short(lh, parentDirectories, parentConfigs, i) ==
    IF i > Len(parentDirectories) THEN lh
    ELSE setHierarchyLocalConfigsFrom_short(
             MapSet(lh, parentDirectories[i],
                    SubSeq(parentConfigs, 1, Len(parentConfigs) - i)),
             parentDirectories, parentConfigs, i + 1)

RECURSIVE setHierarchyLocalConfigsFrom(_, _, _, _)
\* parentDirectories.forEach((localConfigDirectory, i) => ...) from directory i on
setHierarchyLocalConfigsFrom(lh, parentDirectories, parentConfigs, i) ==
    IF i > Len(parentDirectories) THEN lh
    ELSE setHierarchyLocalConfigsFrom(
             MapSet(lh, parentDirectories[i],
                    SubSeq(parentConfigs, 1, Len(parentConfigs) - (i - 1))),
             parentDirectories, parentConfigs, i + 1)

\* every listed directory given the whole of parentConfigs
setHierarchyLocalConfigs_whole(lh, parentDirectories, parentConfigs) ==
    [d \in DOMAIN lh \cup Range(parentDirectories) |->
        IF d \in Range(parentDirectories) THEN parentConfigs ELSE lh[d]]

\* ConfigCache.setHierarchyLocalConfigs(parentDirectories, parentConfigs)
setHierarchyLocalConfigs(lh, parentDirectories, parentConfigs) ==
    setHierarchyLocalConfigsFrom(lh, parentDirectories, parentConfigs, 1)

\* ConfigCache.getMergedVectorConfig(vector) / setMergedVectorConfig(vector, config)
getMergedVectorConfig(mv, vector) == MapGet(mv, hash(vector))
setMergedVectorConfig(mv, vector, config) == MapSet(mv, hash(vector), config)

\* ConfigCache.getMergedConfig(vector) / setMergedConfig(vector, config)
getMergedConfig(mc, vector) == MapGet(mc, hash(vector))
setMergedConfig(mc, vector, config) == MapSet(mc, hash(vector), config)

\* ------------------------------------------------------------ config.js: the constructor

\* hasRules without the count of the keys
hasRules_truthy(options) == Truthy(options.rules)

\* hasRules(options)
hasRules(options) == Truthy(options.rules) /\ Len(Val(options.rules)) > 0

\* ConfigFile.loadObject(baseConfig): an in-memory config object, already in shape
loadObject(configObject) == configObject

\* def.split(":") of a declared global, as [name, writable]
SplitGlobal(def) ==
    CASE def = "g:false" -> [name |-> "g", writable |-> FALSE]
      [] def = "process:true" -> [name |-> "process", writable |-> TRUE]
      [] OTHER -> [name |-> def, writable |-> FALSE]

RECURSIVE EnvsReduce(_, _, _)
\* (options.envs || []).reduce((envs, name) => { envs[name] = true; ... }, {})
EnvsReduce(envs, names, i) ==
    IF i > Len(names) THEN envs
    ELSE EnvsReduce(Put(envs, Val(names[i]), B(TRUE)), names, i + 1)

RECURSIVE GlobalsReduce(_, _, _)
\* (options.globals || []).reduce((globals, def) => { ... }, {})
GlobalsReduce(globals, defs, i) ==
    IF i > Len(defs) THEN globals
    ELSE LET parts == SplitGlobal(Val(defs[i]))
         IN  GlobalsReduce(Put(globals, parts.name, B(parts.writable)), defs, i + 1)

RECURSIVE CliConfigFrom(_, _, _)
\* Object.keys(cliConfigOptions).forEach(...): only truthy values are kept
CliConfigFrom(cliConfig, cliConfigOptions, i) ==
    IF i > Len(cliConfigOptions) THEN cliConfig
    ELSE LET configKey == cliConfigOptions[i][1]
             value == cliConfigOptions[i][2]
         IN  CliConfigFrom(IF Truthy(value) THEN Put(cliConfig, configKey, value) ELSE cliConfig,
                           cliConfigOptions, i + 1)

\* new Config(options) on file system w: the instance and the cache tables it leaves
Constructor(w, options) ==
    LET parserOptions == IF Truthy(options.parserOptions) THEN options.parserOptions ELSE EmptyObj
        base0 == IF Truthy(options.baseConfig)
                 THEN merge(EmptyObj, loadObject(options.baseConfig), FALSE, FALSE)
                 ELSE O(<< <<"rules", EmptyObj>> >>)
        baseConfig == Put(Put(base0, "filePath", S("")), "baseDirectory", S(Cwd))
        c0 == init
        fp1 == MapSet(c0.filePathCache, "", baseConfig)
        \* the key is the empty filePath, which hash() maps to ""
        mv1 == setMergedVectorConfig(c0.mergedVectorCache, <<S("")>>, baseConfig)
        env == EnvsReduce(EmptyObj, IF Truthy(options.envs) THEN Val(options.envs) ELSE <<>>, 1)
        globals == GlobalsReduce(EmptyObj,
                                 IF Truthy(options.globals) THEN Val(options.globals) ELSE <<>>, 1)
        specific == IF Truthy(options.configFile)
                    THEN loadCached(w, fp1, CliConfigFile)
                    ELSE [config |-> Undef, fp |-> fp1]
        cliConfigOptions == << <<"env", env>>, <<"rules", options.rules>>, <<"globals", globals>>,
                               <<"parserOptions", parserOptions>>, <<"plugins", options.plugins>> >>
    IN  [resolver |->
            [options |-> options,
             parser |-> options.parser,
             parserOptions |-> parserOptions,
             baseConfig |-> baseConfig,
             useEslintrc |-> (options.useEslintrc # B(FALSE)),
             env |-> env,
             globals |-> globals,
             useSpecificConfig |-> specific.config,
             cliConfig |-> CliConfigFrom(EmptyObj, cliConfigOptions, 1),
             personalConfig |-> Undef],
         cache |->
            [filePathCache |-> specific.fp, localHierarchyCache |-> c0.localHierarchyCache,
             mergedVectorCache |-> mv1, mergedCache |-> c0.mergedCache]]

\* ------------------------------------------------------------ config.js: the hierarchy

\* A hierarchy is an array of references to config sources. A source is loaded once and
\* kept in the shallow-config table under its filePath, so a reference is modelled by
\* that filePath and followed with Source(fp, ref).
Ref(config) == Val(Get(config, "filePath"))
Source(fp, ref) == MapGet(fp, ref)

\* Config.getPersonalConfig(): [config, personalConfig, fp]; the result is kept in the instance
getPersonalConfig(w, personalConfig, fp) ==
    IF personalConfig = Undef
    THEN LET filename == IF Truthy(w.home) THEN getFilenameForDirectory(w, Val(w.home)) ELSE Undef
             loaded == IF Truthy(filename)
                       THEN loadCached(w, fp, Val(filename))
                       ELSE [config |-> Undef, fp |-> fp]
             config == IF Truthy(loaded.config) THEN loaded.config ELSE Null
         IN  [config |-> config, personalConfig |-> config, fp |-> loaded.fp]
    ELSE [config |-> personalConfig, personalConfig |-> personalConfig, fp |-> fp]

RECURSIVE WalkLocalConfigFiles(_, _, _, _, _, _)
\* the for loop of getLocalConfigHierarchy from file i on; st holds configs, searched,
\* rootPath, cacheHit/cache (the table entry the loop broke on) and the shallow-config table fp
WalkLocalConfigFiles(w, lh, projectConfigPath, localConfigFiles, i, st) ==
    IF i > Len(localConfigFiles) THEN st
    ELSE LET localConfigFile == localConfigFiles[i]
             localConfigDirectory == Dirname(localConfigFile)
             continue == WalkLocalConfigFiles(w, lh, projectConfigPath, localConfigFiles, i + 1, st)
         IN  IF localConfigDirectory \in DOMAIN lh
             THEN [st EXCEPT !.cacheHit = TRUE,
                             !.cache = getHierarchyLocalConfigs(lh, localConfigDirectory)]
             ELSE IF S(localConfigDirectory) = w.home /\ S(localConfigFile) # projectConfigPath
             THEN continue
             ELSE IF Truthy(st.rootPath) /\ ~pathIsInside(Dirname(localConfigFile), Val(st.rootPath))
             THEN continue
             ELSE LET loaded == loadCached(w, st.fp, localConfigFile)
                      localConfig == loaded.config
                  IN  IF ~Truthy(localConfig)
                      THEN continue
                      ELSE WalkLocalConfigFiles(w, lh, projectConfigPath, localConfigFiles, i + 1,
                               [st EXCEPT !.rootPath = IF Get(localConfig, "root") = B(TRUE)
                                                       THEN S(Dirname(localConfigFile))
                                                       ELSE st.rootPath,
                                          !.configs = Append(st.configs, Ref(localConfig)),
                                          !.searched = Append(st.searched, localConfigDirectory),
                                          !.fp = loaded.fp])

\* configs.reverse() left out
Reverse_none(s) == s

\* Array.prototype.reverse()
Reverse(s) == [i \in 1..Len(s) |-> s[Len(s) + 1 - i]]

\* the fallback taken whether or not a config file was named on the command line
UsesFallback_anyway(r, st) == Len(st.configs) = 0 /\ ~st.cacheHit

\* !configs.length && !cache && !this.useSpecificConfig, st the state the walk ended in
UsesFallback(r, st) == Len(st.configs) = 0 /\ ~st.cacheHit /\ ~Truthy(r.useSpecificConfig)

\* the personal config asked for when the walk found nothing: [config, personalConfig, fp]
PersonalFallback(w, r, st) ==
    IF UsesFallback(r, st)
    THEN getPersonalConfig(w, r.personalConfig, st.fp)
    ELSE [config |-> Null, personalConfig |-> r.personalConfig, fp |-> st.fp]

\* getLocalConfigHierarchy after the walk, the directory's hierarchy stored before the
\* error is raised
FinishLocalConfigHierarchy_stored(r, lh, directory, localConfigFiles, st, personal) ==
    LET fallback == UsesFallback(r, st)
        configs == IF fallback /\ Truthy(personal.config)
                   THEN Append(st.configs, Ref(personal.config))
                   ELSE st.configs
        threw == fallback /\ ~Truthy(personal.config)
                 /\ ~hasRules(r.options) /\ ~Truthy(r.options.baseConfig)
        cache == IF st.cacheHit THEN st.cache \o Reverse(configs) ELSE Reverse(configs)
    IN  [threw |-> threw,
         error |-> [message |-> IF threw THEN "No ESLint configuration found." ELSE "",
                    messageTemplate |-> IF threw THEN "no-config-found" ELSE "",
                    directory |-> directory, filesExamined |-> localConfigFiles],
         configs |-> IF threw THEN <<>> ELSE cache, fp |-> personal.fp,
         lh |-> setHierarchyLocalConfigs(lh, IF threw THEN <<directory>> ELSE st.searched, cache),
         personalConfig |-> personal.personalConfig]

\* getLocalConfigHierarchy after the walk: the fallback on the personal config or the
\* error, the reversal, the cached portion put in front, the hierarchies stored
FinishLocalConfigHierarchy(r, lh, directory, localConfigFiles, st, personal) ==
    LET fallback == UsesFallback(r, st)
        configs == IF fallback /\ Truthy(personal.config)
                   THEN Append(st.configs, Ref(personal.config))
                   ELSE st.configs
        threw == fallback /\ ~Truthy(personal.config)
                 /\ ~hasRules(r.options) /\ ~Truthy(r.options.baseConfig)
        cache == IF st.cacheHit THEN st.cache \o Reverse(configs) ELSE Reverse(configs)
    IN  IF threw
        THEN [threw |-> TRUE,
              error |-> [message |-> "No ESLint configuration found.",
                         messageTemplate |-> "no-config-found",
                         directory |-> directory, filesExamined |-> localConfigFiles],
              configs |-> <<>>, fp |-> personal.fp, lh |-> lh,
              personalConfig |-> personal.personalConfig]
        ELSE [threw |-> FALSE,
              error |-> [message |-> "", messageTemplate |-> "",
                         directory |-> directory, filesExamined |-> localConfigFiles],
              configs |-> cache, fp |-> personal.fp,
              lh |-> setHierarchyLocalConfigs(lh, st.searched, cache),
              personalConfig |-> personal.personalConfig]

\* getLocalConfigHierarchy from the end of the walk on
AfterWalk(w, r, lh, directory, localConfigFiles, st) ==
    FinishLocalConfigHierarchy(r, lh, directory, localConfigFiles, st, PersonalFallback(w, r, st))

\* Config.getLocalConfigHierarchy(directory) of instance r with tables fp (shallow configs)
\* and lh (hierarchies): [threw, error, configs, fp, lh, personalConfig]
getLocalConfigHierarchy(w, r, fp, lh, directory) ==
    AfterWalk(w, r, lh, directory, findLocalConfigFiles(w, directory),
              WalkLocalConfigFiles(w, lh, getFilenameForDirectory(w, Cwd),
                  findLocalConfigFiles(w, directory), 1,
                  [configs |-> <<>>, searched |-> <<>>, rootPath |-> Undef,
                   cacheHit |-> FALSE, cache |-> <<>>, fp |-> fp]))

\* steps 1 and 3 of getConfigHierarchy around the local hierarchy: the base config in
\* front, the command line config file behind
AroundLocal(r, local) ==
    [threw |-> local.threw, error |-> local.error,
     configs |-> IF local.threw THEN <<>>
                 ELSE <<Ref(r.baseConfig)>> \o local.configs
                      \o (IF Truthy(r.useSpecificConfig)
                          THEN <<Ref(r.useSpecificConfig)>> ELSE <<>>),
     localConfigs |-> local.configs,
     fp |-> local.fp, lh |-> local.lh, personalConfig |-> local.personalConfig]

\* Config.getConfigHierarchy(directory): the base config, the local hierarchy when
\* .eslintrc files are used, the command line config file when given
getConfigHierarchy(w, r, fp, lh, directory) ==
    AroundLocal(r, IF r.useEslintrc
                   THEN getLocalConfigHierarchy(w, r, fp, lh, directory)
                   ELSE [threw |-> FALSE,
                         error |-> [message |-> "", messageTemplate |-> "",
                                    directory |-> directory, filesExamined |-> <<>>],
                         configs |-> <<>>, fp |-> fp, lh |-> lh,
                         personalConfig |-> r.personalConfig])

\* ------------------------------------------------------------ config.js: the vector

\* a match policy under which one matching pattern is enough
pathMatchesGlobs_some(filePath, patterns) ==
    \E pattern \in Range(ConcatArg(patterns)) : minimatch(filePath, Val(pattern))

\* ConfigOps.pathMatchesGlobs(filePath, patterns): every pattern matches
pathMatchesGlobs(filePath, patterns) ==
    \A pattern \in Range(ConcatArg(patterns)) : minimatch(filePath, Val(pattern))

\* the tokens one source adds to the vector: its filePath, then the indices (from 0) of
\* its override blocks whose globs all match
SourceTokens(config, filePath) ==
    LET overrides == Get(config, "overrides")
        relativePath == Substr(filePath, Len(Val(Get(config, "baseDirectory"))) + 1)
        matching == IF Truthy(overrides)
                    THEN SelectSeq([i \in 1..Len(Val(overrides)) |-> i],
                                   LAMBDA i : pathMatchesGlobs(relativePath,
                                                               Get(Val(overrides)[i], "files")))
                    ELSE <<>>
    IN  <<Get(config, "filePath")>> \o [k \in 1..Len(matching) |-> N(matching[k] - 1)]

RECURSIVE VectorOf_reversed(_, _, _, _)
\* the tokens of the sources from the last source of the hierarchy to the first
VectorOf_reversed(fp, configs, filePath, i) ==
    IF i > Len(configs) THEN <<>>
    ELSE VectorOf_reversed(fp, configs, filePath, i + 1)
         \o SourceTokens(Source(fp, configs[i]), filePath)

RECURSIVE VectorOf(_, _, _, _)
\* the forEach over the hierarchy of getConfigVector, from source i on
VectorOf(fp, configs, filePath, i) ==
    IF i > Len(configs) THEN <<>>
    ELSE SourceTokens(Source(fp, configs[i]), filePath) \o VectorOf(fp, configs, filePath, i + 1)

\* the vector of a hierarchy h for filePath, with the hierarchy kept beside it
VectorOfHierarchy(h, directory, filePath) ==
    [h |-> h, directory |-> directory,
     vector |-> IF h.threw THEN <<>> ELSE VectorOf(h.fp, h.configs, filePath, 1)]

\* Config.getConfigVector(filePath): the hierarchy's result with the vector added
getConfigVector(w, r, fp, lh, filePath) ==
    VectorOfHierarchy(getConfigHierarchy(w, r, fp, lh, Dirname(filePath)),
                      Dirname(filePath), filePath)

\* ------------------------------------------------------------ config-ops.js: environments

\* Environments.get(name): the registry's entry, undefined for an unknown name
EnvironmentsGet(name) ==
    CASE name = "browser" -> O(<< <<"globals", O(<< <<"window", B(FALSE)>>, <<"g", B(FALSE)>> >>)>> >>)
      [] name = "node" -> O(<< <<"globals", O(<< <<"process", B(FALSE)>>, <<"window", B(TRUE)>> >>)>>,
                               <<"parserOptions", O(<< <<"ecmaVersion", N(6)>> >>)>> >>)
      [] name = "es6" -> O(<< <<"parserOptions", O(<< <<"ecmaVersion", N(2015)>>,
                                                     <<"sourceType", S("module")>> >>)>> >>)
      [] OTHER -> Undef

\* ConfigOps.createEmptyConfig()
createEmptyConfig ==
    O(<< <<"globals", EmptyObj>>, <<"env", EmptyObj>>, <<"rules", EmptyObj>>,
         <<"parserOptions", EmptyObj>> >>)

RECURSIVE ObjectAssign_keep(_, _, _)
\* an assignment that leaves the keys target has already
ObjectAssign_keep(target, source, i) ==
    IF i > Len(Val(source)) THEN target
    ELSE ObjectAssign_keep(IF Has(target, Val(source)[i][1]) THEN target
                           ELSE Put(target, Val(source)[i][1], Val(source)[i][2]),
                           source, i + 1)

RECURSIVE ObjectAssign(_, _, _)
\* Object.assign(target, source) from key i of source on
ObjectAssign(target, source, i) ==
    IF i > Len(Val(source)) THEN target
    ELSE ObjectAssign(Put(target, Val(source)[i][1], Val(source)[i][2]), source, i + 1)

RECURSIVE EnvironmentsFold(_, _, _)
\* Object.keys(env).filter(name => env[name]).forEach(...) from key i of env on
EnvironmentsFold(envConfig, env, i) ==
    IF i > Len(Val(env)) THEN envConfig
    ELSE LET name == Val(env)[i][1]
             environment == IF Truthy(Val(env)[i][2]) THEN EnvironmentsGet(name) ELSE Undef
             g == IF Truthy(environment) /\ Truthy(Get(environment, "globals"))
                  THEN Put(envConfig, "globals",
                           ObjectAssign(Get(envConfig, "globals"), Get(environment, "globals"), 1))
                  ELSE envConfig
             po == IF Truthy(environment) /\ Truthy(Get(environment, "parserOptions"))
                   THEN Put(g, "parserOptions",
                            ObjectAssign(Get(g, "parserOptions"),
                                         Get(environment, "parserOptions"), 1))
                   ELSE g
         IN  EnvironmentsFold(po, env, i + 1)

\* ConfigOps.createEnvironmentConfig(env)
createEnvironmentConfig(env) ==
    IF Truthy(env)
    THEN EnvironmentsFold(Put(createEmptyConfig, "env", env), env, 1)
    ELSE createEmptyConfig

\* the config taken as the base and the environments merged over it
applyEnvironments_over(config) ==
    IF Truthy(Get(config, "env")) /\ TypeofObject(Get(config, "env"))
    THEN merge(config, createEnvironmentConfig(Get(config, "env")), FALSE, FALSE)
    ELSE config

\* ConfigOps.applyEnvironments(config)
applyEnvironments(config) ==
    IF Truthy(Get(config, "env")) /\ TypeofObject(Get(config, "env"))
    THEN merge(createEnvironmentConfig(Get(config, "env")), config, FALSE, FALSE)
    ELSE config

\* ------------------------------------------------------------ config-ops.js: getConfigFromVector

\* the longest prefix of the vector with an entry in the partial-merge table: its length,
\* 0 when no prefix has one (nearestCacheIndex + 1)
NearestCached(mv, vector) ==
    LET hits == {n \in 1..Len(vector) : hash(SubSeq(vector, 1, n)) \in DOMAIN mv}
    IN  IF hits = {} THEN 0 ELSE CHOOSE n \in hits : \A m \in hits : m <= n

\* the overrides always looked up in the first source of the vector
ParentConfigKey_first(vector, n) == vector[1]

\* the nearest string token at or before position n (parentConfigKey); the token at
\* position 1 when there is none
ParentConfigKey(vector, n) ==
    LET strs == {i \in 1..n : Tag(vector[i]) = "str"}
    IN  IF strs = {} THEN vector[1] ELSE vector[CHOOSE i \in strs : \A j \in strs : j <= i]

\* the bookkeeping keys deleted after a merge step
StripKeys(config) ==
    IF Truthy(Get(config, "filePath"))
    THEN Delete(Delete(config, "filePath"), "baseDirectory")
    ELSE IF Truthy(Get(config, "files"))
    THEN Delete(config, "files")
    ELSE config

\* the accumulated config stored under the key of the first token
FoldCacheKey_first(vector, i) == <<vector[1]>>

\* the key under which the fold stores the config accumulated after token i
FoldCacheKey(vector, i) == vector

RECURSIVE FoldVector(_, _, _, _, _, _)
\* the fold loop from token i on: [config, mv, threw]. A key without a source in the
\* shallow-config table, or an index without an override block, makes the loop read a
\* property of undefined: a TypeError is thrown, the entries stored so far stay
FoldVector(fp, mv, vector, i, config, subConfigs) ==
    IF i > Len(vector) THEN [config |-> config, mv |-> mv, threw |-> FALSE]
    ELSE LET configKey == vector[i]
             isString == Tag(configKey) = "str"
             shallowConfig == IF isString
                              THEN MapGet(fp, Val(configKey))
                              ELSE At(subConfigs, Val(configKey) + 1)
             subConfigs1 == IF isString THEN Get(shallowConfig, "overrides") ELSE subConfigs
             merged == StripKeys(merge(config, shallowConfig, FALSE, FALSE))
         IN  IF shallowConfig = Undef
             THEN [config |-> Throw, mv |-> mv, threw |-> TRUE]
             ELSE FoldVector(fp, setMergedVectorConfig(mv, FoldCacheKey(vector, i), merged),
                             vector, i + 1, merged, subConfigs1)

\* getConfigFromVector returning the nearest cached config without folding the rest
getConfigFromVector_nearest(fp, mv, vector) ==
    LET n == NearestCached(mv, vector)
    IN  IF n > 0
        THEN [config |-> getMergedVectorConfig(mv, SubSeq(vector, 1, n)), mv |-> mv,
              threw |-> FALSE]
        ELSE FoldVector(fp, mv, vector, 1, EmptyObj, Undef)

\* ConfigOps.getConfigFromVector(vector) with shallow-config table fp and partial-merge
\* table mv: [config, mv]
getConfigFromVector(fp, mv, vector) ==
    LET n == NearestCached(mv, vector)
        hit == n > 0
        config == IF hit THEN getMergedVectorConfig(mv, SubSeq(vector, 1, n)) ELSE EmptyObj
        subConfigs == IF hit /\ n < Len(vector) /\ Tag(vector[n + 1]) = "num"
                      THEN Get(MapGet(fp, Val(ParentConfigKey(vector, n))), "overrides")
                      ELSE Undef
    IN  IF hit /\ n = Len(vector)
        THEN [config |-> config, mv |-> mv, threw |-> FALSE]
        ELSE FoldVector(fp, mv, vector, n + 1, config, subConfigs)

\* ------------------------------------------------------------ config.js: getConfig

\* step 2 with the operands of merge exchanged
MergeCli_swapped(config, cliConfig) == merge(cliConfig, config, FALSE, FALSE)

\* step 2 of getConfig: the command line options are merged into the filesystem merge
MergeCli(config, cliConfig) == merge(config, cliConfig, FALSE, FALSE)

\* step 3 taken only when the command line gives a parser
MergeParser_cli(r, config) ==
    IF Truthy(r.parser)
    THEN merge(config, O(<< <<"parser", r.parser>> >>), FALSE, FALSE)
    ELSE config

\* step 3 of getConfig: the parser of the command line, or the parser key made present
MergeParser(r, config) ==
    IF Truthy(r.parser) \/ ~Truthy(Get(config, "parser"))
    THEN merge(config, O(<< <<"parser", r.parser>> >>), FALSE, FALSE)
    ELSE config

\* step 4 of getConfig: the environments applied when the config has an env key
ApplyEnv(config) == IF Truthy(Get(config, "env")) THEN applyEnvironments(config) ELSE config

\* steps 2 to 4 of getConfig on the filesystem merge: the command line options, the
\* parser, the environments
FinishConfig(r, fsConfig) == ApplyEnv(MergeParser(r, MergeCli(fsConfig, r.cliConfig)))

\* the config stored before the parser and the environments are applied
CachedConfig_early(r, fsConfig, config) == merge(fsConfig, r.cliConfig, FALSE, FALSE)

\* what getConfig stores in the final-merge table for the config it returns
CachedConfig(r, fsConfig, config) == config

\* the tables of the cache after the vector v was computed
AfterVector(c, v) == [c EXCEPT !.filePathCache = v.h.fp, !.localHierarchyCache = v.h.lh]

\* getConfig on a miss of the final-merge table, after steps 1 to 4: the config is stored
\* and returned; fs is the result of getConfigFromVector
StoreConfig(r, c, v, fs, config) ==
    [threw |-> FALSE, error |-> v.h.error, directory |-> v.directory, vector |-> v.vector,
     hierarchy |-> v.h.configs, localConfigs |-> v.h.localConfigs, cached |-> FALSE,
     fsConfig |-> fs.config, config |-> config,
     cache |-> [AfterVector(c, v) EXCEPT
                   !.mergedVectorCache = fs.mv,
                   !.mergedCache = setMergedConfig(c.mergedCache, v.vector,
                                       CachedConfig(r, fs.config, config))],
     personalConfig |-> v.h.personalConfig]

\* steps 2 to 4 of getConfig on the result fs of step 1; a TypeError of step 1 leaves
\* getConfig with the partial merges stored so far
MergeFrom(r, c, v, fs) ==
    IF fs.threw
    THEN [threw |-> TRUE,
          error |-> [message |-> "TypeError", messageTemplate |-> "",
                     directory |-> v.directory, filesExamined |-> <<>>],
          directory |-> v.directory, vector |-> v.vector,
          hierarchy |-> v.h.configs, localConfigs |-> v.h.localConfigs, cached |-> FALSE,
          fsConfig |-> Undef, config |-> Undef,
          cache |-> [AfterVector(c, v) EXCEPT !.mergedVectorCache = fs.mv],
          personalConfig |-> v.h.personalConfig]
    ELSE StoreConfig(r, c, v, fs, FinishConfig(r, fs.config))

\* getConfig from the vector v on
ConfigOfVector(r, c, v) ==
    IF v.h.threw
    THEN [threw |-> TRUE, error |-> v.h.error, directory |-> v.directory, vector |-> <<>>,
          hierarchy |-> <<>>, localConfigs |-> <<>>, cached |-> FALSE,
          fsConfig |-> Undef, config |-> Undef,
          cache |-> AfterVector(c, v), personalConfig |-> v.h.personalConfig]
    ELSE IF hash(v.vector) \in DOMAIN c.mergedCache
    THEN [threw |-> FALSE, error |-> v.h.error, directory |-> v.directory, vector |-> v.vector,
          hierarchy |-> v.h.configs, localConfigs |-> v.h.localConfigs, cached |-> TRUE,
          fsConfig |-> Undef, config |-> getMergedConfig(c.mergedCache, v.vector),
          cache |-> AfterVector(c, v), personalConfig |-> v.h.personalConfig]
    ELSE MergeFrom(r, c, v, getConfigFromVector(v.h.fp, c.mergedVectorCache, v.vector))

\* Config.getConfig(filePath) of instance r on tables c:
\* [threw, error, vector, hierarchy, localConfigs, cached, fsConfig, config, cache, personalConfig]
getConfig(w, r, c, filePath) ==
    ConfigOfVector(r, c, getConfigVector(w, r, c.filePathCache, c.localHierarchyCache, filePath))

\* the shallow-config table as instance r reads it while it builds a vector: the
\* hierarchy holds the instance's own base config object, whatever the table has under ""
OwnTable(r, fp) == MapSet(fp, "", r.baseConfig)

\* the vector v with the shallow-config table of c as it is: the entry under "" is the
\* one of c, the sources loaded for v are added
SharedTable(c, v) == [v EXCEPT !.h.fp = MapSet(v.h.fp, "", c.filePathCache[""])]

\* Config.getConfig(filePath) of an instance r on tables c that another constructor may
\* have filled since r was constructed
getConfigShared(w, r, c, filePath) ==
    ConfigOfVector(r, c, SharedTable(c, getConfigVector(w, r, OwnTable(r, c.filePathCache),
                                                        c.localHierarchyCache, filePath)))

\* ------------------------------------------------------------ the resolver as a state machine

VARIABLES
    world,      \* the file system and the personal directory of the run
    resolver,   \* the Config instance: its options and the fields the constructor sets
    cache,      \* the four tables of the configCache singleton
    last,       \* the latest getConfig call: its target, vector, hierarchy and outcome
    returned,   \* every <<filePath, vector, config>> a getConfig call has returned so far
    calc        \* a call of one of the pure functions of config-ops.js: operands and result

vars == <<world, resolver, cache, last, returned, calc>>

\* no call of a pure function under way
NoCalc == [op |-> "none"]

\* the base config object a caller may pass as options.baseConfig
BaseConfigOption ==
    O(<< <<"rules", O(<< <<"r1", N(0)>>, <<"rb", N(1)>> >>)>>,
         <<"overrides", A(<< O(<< <<"files", S("*.js")>>,
                                  <<"rules", O(<< <<"rb", N(2)>> >>)>> >>) >>)>> >>)

NoOptions ==
    [rules |-> Undef, baseConfig |-> Undef, configFile |-> Undef, parser |-> Undef,
     envs |-> Undef, globals |-> Undef, plugins |-> Undef, parserOptions |-> Undef,
     useEslintrc |-> Undef]

\* the file systems of the model
Worlds ==
    [cfgP : {"none", "plain"}, cfgA : {"none", "plain", "root"},
     cfgB : {"plain", "empty"}, home : {S("/p/a"), S("/p"), Null}]

\* the options of the runs that vary the file system
HierarchyOptions ==
    {[NoOptions EXCEPT !.rules = ru, !.baseConfig = bc, !.configFile = cf] :
        ru \in {Undef, EmptyObj, O(<< <<"r5", N(2)>> >>)},
        bc \in {Undef, BaseConfigOption},
        cf \in {Undef, S("cli.json")}}

NoCall ==
    [file |-> "", threw |-> FALSE,
     error |-> [message |-> "", messageTemplate |-> "", directory |-> "", filesExamined |-> <<>>],
     directory |-> "", vector |-> <<>>, hierarchy |-> <<>>, localConfigs |-> <<>>,
     cached |-> FALSE, fsConfig |-> Undef, config |-> Undef]

\* the state a constructor call leaves
Constructed(w, options) ==
    LET k == Constructor(w, options)
    IN  /\ world = w
        /\ resolver = k.resolver
        /\ cache = k.cache
        /\ last = NoCall
        /\ returned = {}
        /\ calc = NoCalc

Init == \E w \in Worlds, options \in HierarchyOptions : Constructed(w, options)

\* the effect of resolver.getConfig(filePath) on the instance, the tables and the record
\* of calls
Resolve(filePath) ==
    \E g \in {getConfig(world, resolver, cache, filePath)} :
        /\ cache' = g.cache
        /\ resolver' = [resolver EXCEPT !.personalConfig = g.personalConfig]
        /\ last' = [file |-> filePath, threw |-> g.threw, error |-> g.error,
                    directory |-> g.directory, vector |-> g.vector,
                    hierarchy |-> g.hierarchy, localConfigs |-> g.localConfigs,
                    cached |-> g.cached, fsConfig |-> g.fsConfig, config |-> g.config]
        /\ returned' = IF g.threw THEN returned ELSE returned \cup {<<filePath, g.vector, g.config>>}
        /\ UNCHANGED world

\* a caller asks for the config of filePath
GetConfig(filePath) == Resolve(filePath) /\ UNCHANGED calc

Next == \E filePath \in Files : GetConfig(filePath)

Spec == Init /\ [][Next]_vars

\* the options of the runs that vary the command line
CliOptions ==
    {[NoOptions EXCEPT !.rules = ru, !.envs = en, !.globals = gl, !.plugins = pl,
                       !.parser = pa, !.parserOptions = po, !.useEslintrc = ue] :
        ru \in {Undef,
                O(<< <<"r1", N(2)>>, <<"r2", N(0)>>, <<"r6", S("warn")>> >>),
                O(<< <<"r1", A(<<N(1)>>)>>, <<"r2", A(<<N(2), S("y"), S("z")>>)>> >>)},
        en \in {Undef, A(<<S("node"), S("mystery")>>)},
        gl \in {Undef, A(<<S("g:false"), S("process:true"), S("h")>>)},
        pl \in {Undef, A(<<S("y"), S("z")>>)},
        pa \in {Undef, S("pc")},
        po \in {Undef, O(<< <<"ecmaVersion", N(5)>>, <<"sourceType", S("module")>> >>)},
        ue \in {Undef, B(FALSE)}}

\* the file system of the runs that vary the command line
CliWorld == [cfgP |-> "plain", cfgA |-> "plain", cfgB |-> "plain", home |-> Null]

InitCli == \E options \in CliOptions : Constructed(CliWorld, options)

SpecCli == InitCli /\ [][Next]_vars

\* the options of the runs that vary the base config: none, or one without rules that
\* enables an environment, disables one, or names none
BaseOptions ==
    {[NoOptions EXCEPT !.baseConfig = bc, !.envs = en, !.parser = pa, !.useEslintrc = ue] :
        bc \in {Undef,
                O(<< <<"globals", O(<< <<"g", B(TRUE)>> >>)>> >>),
                O(<< <<"env", O(<< <<"browser", B(FALSE)>> >>)>> >>),
                O(<< <<"env", O(<< <<"browser", B(TRUE)>> >>)>> >>)},
        en \in {Undef, A(<<S("node")>>)},
        pa \in {Undef, S("pc")},
        ue \in {Undef, B(FALSE)}}

InitBase == \E options \in BaseOptions : Constructed(CliWorld, options)

SpecBase == InitBase /\ [][Next]_vars

\* the file systems of the runs that resolve a file of CommaDirectory
KeyWorlds ==
    {[cfgP |-> "plain", cfgA |-> a, cfgB |-> b, home |-> Null, cfgC |-> "root"] :
        a \in {"none", "plain"}, b \in {"plain", "empty"}}

\* the files those runs ask about
KeyFiles == {"/p/a/b/x.js", "/p/a/z.js", "/p/w.js", CommaFile}

InitKeys ==
    \E w \in KeyWorlds, options \in {NoOptions, [NoOptions EXCEPT !.parser = S("pc")]} :
        Constructed(w, options)

NextKeys == \E filePath \in KeyFiles : GetConfig(filePath)

SpecKeys == InitKeys /\ [][NextKeys]_vars

\* ------------------------------------------------------------ a run with init() and constructors

\* the file systems of the runs that call init() and construct again
RunWorlds == {CliWorld, [CliWorld EXCEPT !.cfgA = "root"]}

\* the longest sequence of init() calls in a row
MaxInits == 2

\* a first resolver constructed; step names the latest call of the run, inits counts the
\* init() calls since the latest other call
InitRun ==
    \E w \in RunWorlds, options \in HierarchyOptions :
        \E k \in {Constructor(w, options)} :
            /\ world = w
            /\ resolver = k.resolver
            /\ cache = k.cache
            /\ last = NoCall
            /\ returned = {}
            /\ calc = [op |-> "run", step |-> "construct", inits |-> 0]

\* configCache.init()
CacheInit ==
    /\ calc.op = "run"
    /\ calc.inits < MaxInits
    /\ cache' = init
    /\ calc' = [calc EXCEPT !.step = "init", !.inits = @ + 1]
    /\ UNCHANGED <<world, resolver, last, returned>>

\* new Config(options): the instance replaces the one of the run
Construct(options) ==
    \E k \in {Constructor(world, options)} :
        /\ calc.op = "run"
        /\ resolver' = k.resolver
        /\ cache' = k.cache
        /\ last' = NoCall
        /\ returned' = {}
        /\ calc' = [calc EXCEPT !.step = "construct", !.inits = 0]
        /\ UNCHANGED world

\* getConfig(filePath) of the instance, whose constructor was the latest to fill the tables
ResolveRun(filePath) ==
    /\ calc.op = "run"
    /\ calc.step # "init"
    /\ Resolve(filePath)
    /\ calc' = [calc EXCEPT !.step = "resolve", !.inits = 0]

NextRun ==
    \/ CacheInit
    \/ \E options \in HierarchyOptions : Construct(options)
    \/ \E filePath \in Files : ResolveRun(filePath)

SpecRun == InitRun /\ [][NextRun]_vars

\* ------------------------------------------------------------ a run with two resolvers

\* the options of the two instances: without a command line config file
TwoOptions ==
    {[NoOptions EXCEPT !.rules = ru, !.baseConfig = bc] :
        ru \in {Undef, O(<< <<"r5", N(2)>> >>)},
        bc \in {Undef, BaseConfigOption}}

\* the most getConfig calls of a run of the two instances
MaxCalls == 2

\* the record of a getConfig call
CallRecord(filePath, g) ==
    [file |-> filePath, threw |-> g.threw, error |-> g.error,
     directory |-> g.directory, vector |-> g.vector,
     hierarchy |-> g.hierarchy, localConfigs |-> g.localConfigs,
     cached |-> g.cached, fsConfig |-> g.fsConfig, config |-> g.config]

\* the first instance constructed. calc.second is the second instance once constructed,
\* calc.who the instance of the latest getConfig call; calc.alone holds the tables the
\* first instance would have if it were the only one, calc.aloneOutcome what its latest
\* call would have returned then, calc.calls the number of getConfig calls so far
InitTwo ==
    \E w \in RunWorlds, options \in TwoOptions :
        \E k \in {Constructor(w, options)} :
            /\ world = w
            /\ resolver = k.resolver
            /\ cache = k.cache
            /\ last = NoCall
            /\ returned = {}
            /\ calc = [op |-> "two", second |-> k.resolver, constructed |-> FALSE, who |-> 0,
                       alone |-> k.cache, aloneOutcome |-> <<FALSE, Undef>>, calls |-> 0]

\* new Config(options) for a second instance with other options
ConstructSecond(options) ==
    \E k \in {Constructor(world, options)} :
        /\ calc.op = "two"
        /\ ~calc.constructed
        /\ options # resolver.options
        /\ cache' = k.cache
        /\ calc' = [calc EXCEPT !.second = k.resolver, !.constructed = TRUE, !.who = 0]
        /\ UNCHANGED <<world, resolver, last, returned>>

\* getConfig(filePath) of the first instance
ResolveFirst(filePath) ==
    \E g \in {getConfigShared(world, resolver, cache, filePath)} :
        \E a \in {getConfig(world, resolver, calc.alone, filePath)} :
            /\ calc.op = "two"
            /\ calc.calls < MaxCalls
            /\ cache' = g.cache
            /\ resolver' = [resolver EXCEPT !.personalConfig = g.personalConfig]
            /\ last' = CallRecord(filePath, g)
            /\ returned' = IF g.threw THEN returned
                           ELSE returned \cup {<<filePath, g.vector, g.config>>}
            /\ calc' = [calc EXCEPT !.who = 1, !.alone = a.cache,
                                    !.aloneOutcome = <<a.threw, a.config>>,
                                    !.calls = calc.calls + 1]
            /\ UNCHANGED world

\* getConfig(filePath) of the second instance
ResolveSecond(filePath) ==
    \E g \in {getConfigShared(world, calc.second, cache, filePath)} :
        /\ calc.op = "two"
        /\ calc.constructed
        /\ calc.calls < MaxCalls
        /\ cache' = g.cache
        /\ last' = CallRecord(filePath, g)
        /\ returned' = IF g.threw THEN returned
                       ELSE returned \cup {<<filePath, g.vector, g.config>>}
        /\ calc' = [calc EXCEPT !.who = 2, !.second.personalConfig = g.personalConfig,
                                !.calls = calc.calls + 1]
        /\ UNCHANGED <<world, resolver>>

NextTwo ==
    \/ \E options \in TwoOptions : ConstructSecond(options)
    \/ \E filePath \in Files : ResolveFirst(filePath)
    \/ \E filePath \in Files : ResolveSecond(filePath)

SpecTwo == InitTwo /\ [][NextTwo]_vars

\* ------------------------------------------------------------ getConfig on objects held by reference

\* A memory m of a getConfig call: heap maps an address to the object there; mv and mc
\* map the keys of the partial-merge and final-merge tables to addresses; config is the
\* address the variable config refers to; published maps an address to the object it
\* held when it was stored in a table (or before the call); next numbers the new objects.

\* let dst = {}: a new object, to which config is made to refer
NewObject(m, value) ==
    [m EXCEPT !.heap = (<<"new", ToString(m.next)>> :> value) @@ m.heap,
              !.config = <<"new", ToString(m.next)>>,
              !.next = m.next + 1]

\* a merge that writes its result into the object config refers to
MergeInto_inplace(m, src) ==
    [m EXCEPT !.heap[m.config] = merge(m.heap[m.config], src, FALSE, FALSE)]

\* config = merge(config, src): merge returns dst, a new object
MergeInto(m, src) == NewObject(m, merge(m.heap[m.config], src, FALSE, FALSE))

\* delete config.filePath ... : the keys are deleted in the object config refers to
DeleteKeys(m) == [m EXCEPT !.heap[m.config] = StripKeys(m.heap[m.config])]

\* the objects stored in a table so far, with the object config refers to added
Published(m) ==
    IF m.config \in DOMAIN m.published THEN m.published
    ELSE (m.config :> m.heap[m.config]) @@ m.published

\* configCache.setMergedVectorConfig(vector, config) / setMergedConfig(vector, config)
StoreVector(m, vector) ==
    [m EXCEPT !.mv = MapSet(m.mv, hash(vector), m.config), !.published = Published(m)]
StoreMerged(m, vector) ==
    [m EXCEPT !.mc = MapSet(m.mc, hash(vector), m.config), !.published = Published(m)]

\* shallowConfig of the fold at token i, read through the shallow-config table fp of
\* addresses, and subConfigs after it
ShallowConfig(m, fp, vector, i, subConfigs) ==
    IF Tag(vector[i]) = "str" THEN m.heap[fp[Val(vector[i])]]
    ELSE At(subConfigs, Val(vector[i]) + 1)
SubConfigsAfter(m, fp, vector, i, subConfigs) ==
    IF Tag(vector[i]) = "str" THEN Get(m.heap[fp[Val(vector[i])]], "overrides")
    ELSE subConfigs

RECURSIVE HeapFold(_, _, _, _, _)
\* the fold loop of getConfigFromVector from token i on
HeapFold(m, fp, vector, i, subConfigs) ==
    IF i > Len(vector) THEN m
    ELSE HeapFold(StoreVector(DeleteKeys(MergeInto(m, ShallowConfig(m, fp, vector, i, subConfigs))),
                              vector),
                  fp, vector, i + 1, SubConfigsAfter(m, fp, vector, i, subConfigs))

\* getConfigFromVector with the nearest cached prefix of length n
HeapFrom(m, fp, vector, n) ==
    IF n = 0 THEN HeapFold(NewObject(m, EmptyObj), fp, vector, 1, Undef)
    ELSE IF n = Len(vector) THEN [m EXCEPT !.config = m.mv[hash(vector)]]
    ELSE HeapFold([m EXCEPT !.config = m.mv[hash(SubSeq(vector, 1, n))]], fp, vector, n + 1,
                  IF Tag(vector[n + 1]) = "num"
                  THEN Get(m.heap[fp[Val(ParentConfigKey(vector, n))]], "overrides")
                  ELSE Undef)

\* steps 3 and 4 of getConfig
HeapParser(m, r) ==
    IF Truthy(r.parser) \/ ~Truthy(Get(m.heap[m.config], "parser"))
    THEN MergeInto(m, O(<< <<"parser", r.parser>> >>))
    ELSE m
HeapEnv(m) ==
    IF Truthy(Get(m.heap[m.config], "env")) /\ TypeofObject(Get(m.heap[m.config], "env"))
    THEN NewObject(m, merge(createEnvironmentConfig(Get(m.heap[m.config], "env")),
                            m.heap[m.config], FALSE, FALSE))
    ELSE m

\* getConfig from the vector on: the memory afterwards, config the object returned
HeapGetConfig(m, r, fp, vector) ==
    IF hash(vector) \in DOMAIN m.mc
    THEN [m EXCEPT !.config = m.mc[hash(vector)]]
    ELSE StoreMerged(HeapEnv(HeapParser(MergeInto(HeapFrom(m, fp, vector,
                                                           NearestCached(m.mv, vector)),
                                                  r.cliConfig), r)),
                     vector)

\* the addresses of the objects of the tables c: a source at <<"fp", path>>, a partial
\* merge at <<"mv", key>> (the base config, stored by the constructor in both tables, at
\* <<"fp", "">>), a final merge at <<"mc", key>>
SourceAddresses(c) == [k \in DOMAIN c.filePathCache |-> <<"fp", k>>]
MemoryOf(c) ==
    [heap |-> [a \in {<<"fp", k>> : k \in DOMAIN c.filePathCache}
                     \cup {<<"mv", k>> : k \in DOMAIN c.mergedVectorCache \ {""}}
                     \cup {<<"mc", k>> : k \in DOMAIN c.mergedCache} |->
                  CASE a[1] = "fp" -> c.filePathCache[a[2]]
                    [] a[1] = "mv" -> c.mergedVectorCache[a[2]]
                    [] OTHER -> c.mergedCache[a[2]]],
     mv |-> [k \in DOMAIN c.mergedVectorCache |-> IF k = "" THEN <<"fp", "">> ELSE <<"mv", k>>],
     mc |-> [k \in DOMAIN c.mergedCache |-> <<"mc", k>>],
     config |-> <<"none", "">>,
     next |-> 1]

\* the tables and the instance after the resolve of prior ("": no earlier resolve)
PriorState(w, k, prior) ==
    IF prior = ""
    THEN [threw |-> FALSE, cache |-> k.cache, personalConfig |-> k.resolver.personalConfig]
    ELSE getConfig(w, k.resolver, k.cache, prior)

\* a resolver, at most one earlier resolve, and the vector of the target computed
InitHeap ==
    \E w \in RunWorlds, options \in HierarchyOptions, prior \in {""} \cup Files, f \in Files :
        \E k \in {Constructor(w, options)} :
            \E g \in {PriorState(w, k, prior)} :
                \E v \in {getConfigVector(w, [k.resolver EXCEPT !.personalConfig = g.personalConfig],
                                          g.cache.filePathCache, g.cache.localHierarchyCache, f)} :
                    \E m \in {MemoryOf(AfterVector(g.cache, v))} :
                        /\ ~g.threw /\ ~v.h.threw
                        /\ world = w
                        /\ resolver = [k.resolver EXCEPT !.personalConfig = v.h.personalConfig]
                        /\ cache = AfterVector(g.cache, v)
                        /\ last = NoCall
                        /\ returned = {}
                        /\ calc = [op |-> "heap", file |-> f, vector |-> v.vector, done |-> FALSE,
                                   m |-> [heap |-> m.heap, mv |-> m.mv, mc |-> m.mc,
                                          config |-> m.config, next |-> m.next,
                                          published |-> m.heap]]

\* getConfig(file), from the vector on, on the objects of the memory
HeapResolve ==
    /\ calc.op = "heap"
    /\ ~calc.done
    /\ calc' = [calc EXCEPT
                   !.done = TRUE,
                   !.m = HeapGetConfig(calc.m, resolver, SourceAddresses(cache), calc.vector)]
    /\ UNCHANGED <<world, resolver, cache, last, returned>>

NextHeap == HeapResolve

SpecHeap == InitHeap /\ [][NextHeap]_vars

\* ------------------------------------------------------------ the pure functions as state machines

\* the resolver left out of the runs of the pure functions
NoResolver ==
    /\ world = CliWorld
    /\ resolver = Constructor(CliWorld, NoOptions).resolver
    /\ cache = init
    /\ last = NoCall
    /\ returned = {}

\* override blocks of the merge operands
Block1 == O(<< <<"files", S("*.js")>>, <<"rules", O(<< <<"r1", N(0)>> >>)>> >>)
Block2 == O(<< <<"files", A(<<S("*.ts"), S("b/**")>>)>>, <<"rules", O(<< <<"r1", N(2)>> >>)>> >>)
Block3 == O(<< <<"files", S("*.ts")>>, <<"env", O(<< <<"node", B(TRUE)>> >>)>> >>)

\* the operands of merge: configs and plain mappings
MergeInputs ==
    { EmptyObj,
      O(<< <<"parser", S("p1")>>, <<"root", B(TRUE)>> >>),
      O(<< <<"parser", S("p2")>> >>),
      O(<< <<"rules", O(<< <<"r1", N(1)>>, <<"r2", A(<<N(2), S("a")>>)>> >>)>> >>),
      O(<< <<"rules", O(<< <<"r1", S("error")>>, <<"r2", N(1)>>, <<"r3", A(<<N(1)>>)>> >>)>> >>),
      O(<< <<"rules", O(<< <<"r2", A(<<S("warn"), S("b"), S("c")>>)>> >>)>>,
           <<"env", O(<< <<"node", B(TRUE)>> >>)>> >>),
      O(<< <<"env", O(<< <<"node", B(FALSE)>>, <<"browser", B(TRUE)>> >>)>>,
           <<"globals", O(<< <<"g", B(TRUE)>> >>)>> >>),
      O(<< <<"plugins", A(<<S("x")>>)>>, <<"overrides", A(<<Block1>>)>> >>),
      O(<< <<"plugins", A(<<S("x"), S("y")>>)>>, <<"overrides", A(<<Block2, Block1>>)>> >>),
      O(<< <<"overrides", A(<<Block3>>)>>, <<"parser", S("p1")>> >>),
      O(<< <<"a", N(1)>>, <<"b", S("s")>> >>),
      O(<< <<"b", N(2)>>, <<"c", B(TRUE)>> >>) }

\* how many sources a fold of the model merges at most, the first one included
MaxFold == 3

\* a fold starts from its first source
InitMerge ==
    /\ NoResolver
    /\ \E a \in MergeInputs :
          calc = [op |-> "merge", srcs |-> <<a>>, prev |-> Undef, acc |-> a]

\* config = merge(config, src): the next source is merged into the accumulated config
Merge(src) ==
    /\ calc.op = "merge"
    /\ Len(calc.srcs) < MaxFold
    /\ calc' = [op |-> "merge", srcs |-> Append(calc.srcs, src), prev |-> calc.acc,
                acc |-> merge(calc.acc, src, FALSE, FALSE)]
    /\ UNCHANGED <<world, resolver, cache, last, returned>>

NextMerge == \E src \in MergeInputs : Merge(src)

SpecMerge == InitMerge /\ [][NextMerge]_vars

\* the entries a config of the model gives for a rule: severities, and arrays of a severity
\* and options
MergedRuleEntries ==
    { N(0), S("error"),
      A(<<N(1)>>), A(<<S("warn")>>),
      A(<<N(2), S("a")>>),
      A(<<S("warn"), S("b"), S("c")>>),
      A(<<N(1), O(<< <<"max", N(3)>> >>)>>),
      A(<<N(2), O(<< <<"min", N(1)>>, <<"max", N(9)>> >>), S("x")>>) }

\* configs that configure the rule r1, one that configures none and one without rules
RuleConfigs ==
    { O(<< <<"rules", O(<< <<"r1", e>> >>)>> >>) : e \in MergedRuleEntries }
        \cup { EmptyObj, O(<< <<"rules", EmptyObj>> >>) }

\* a fold over rule configs starts from its first source
InitRules ==
    /\ NoResolver
    /\ \E a \in RuleConfigs :
          calc = [op |-> "merge", srcs |-> <<a>>, prev |-> Undef, acc |-> a]

NextRules == \E src \in RuleConfigs : Merge(src)

SpecRules == InitRules /\ [][NextRules]_vars

\* the environment names of the model: three of the registry and one it does not know
EnvNames == {"browser", "node", "es6", "mocha"}

\* how many environments an env mapping of the model names at most
MaxEnvs == 3

\* the env mappings of the model: distinct names in any order, each enabled or disabled
EnvMappings ==
    { O([i \in 1..Len(names) |-> <<names[i], B(flags[i])>>]) :
          <<names, flags>> \in
              { nf \in UNION { [1..n -> EnvNames] \X [1..n -> BOOLEAN] : n \in 0..MaxEnvs } :
                    \A i, j \in DOMAIN nf[1] : i # j => nf[1][i] # nf[1][j] } }

\* an env mapping is given
InitEnv ==
    /\ NoResolver
    /\ \E env \in EnvMappings :
          calc = [op |-> "env", env |-> env, done |-> FALSE, envConfig |-> Undef]

\* ConfigOps.createEnvironmentConfig(env)
CreateEnvironmentConfig ==
    /\ calc.op = "env"
    /\ ~calc.done
    /\ calc' = [calc EXCEPT !.done = TRUE, !.envConfig = createEnvironmentConfig(calc.env)]
    /\ UNCHANGED <<world, resolver, cache, last, returned>>

NextEnv == CreateEnvironmentConfig

SpecEnv == InitEnv /\ [][NextEnv]_vars

\* the plugin names of the model
PluginNames == {"x", "y", "z"}

\* how many names a plugin list of the model holds at most
MaxPlugins == 2

RECURSIVE ListsUpTo(_, _)
\* the sequences over set of length n at most
ListsUpTo(set, n) ==
    IF n = 0 THEN {<<>>}
    ELSE LET shorter == ListsUpTo(set, n - 1)
         IN  shorter \cup {Append(l, e) : l \in {m \in shorter : Len(m) = n - 1}, e \in set}

PluginLists == {[i \in 1..Len(l) |-> S(l[i])] : l \in ListsUpTo(PluginNames, MaxPlugins)}

\* two configs, each with a plugin list
InitPlugins ==
    /\ NoResolver
    /\ \E p \in PluginLists, q \in PluginLists :
          calc = [op |-> "plugins", p |-> p, q |-> q, done |-> FALSE, out |-> Undef]

\* merge({plugins: P}, {plugins: Q})
MergePlugins ==
    /\ calc.op = "plugins"
    /\ ~calc.done
    /\ calc' = [calc EXCEPT
                   !.done = TRUE,
                   !.out = merge(O(<< <<"plugins", A(calc.p)>> >>),
                                 O(<< <<"plugins", A(calc.q)>> >>), FALSE, FALSE)]
    /\ UNCHANGED <<world, resolver, cache, last, returned>>

NextPlugins == MergePlugins

SpecPlugins == InitPlugins /\ [][NextPlugins]_vars

\* the severity texts of the model: valid ones in several letter cases and invalid ones
SeverityTexts == {"off", "warn", "error", "OFF", "Warn", "ERROR", "bogus", "constructor"}

\* the entries of a rule: a text alone, or first in an array with an option
RuleEntries ==
    {S(t) : t \in SeverityTexts} \cup {A(<<S(t), S("always")>>) : t \in SeverityTexts}

\* a config with two rules whose severities are texts
InitSeverity ==
    /\ NoResolver
    /\ \E e1 \in RuleEntries, e2 \in RuleEntries :
          LET c == O(<< <<"rules", O(<< <<"r1", e1>>, <<"r2", e2>> >>)>> >>)
          IN  calc = [op |-> "severity", stage |-> "given", given |-> c, config |-> c]

\* ConfigOps.normalize(config)
Normalize ==
    /\ calc.op = "severity"
    /\ calc.stage = "given"
    /\ calc' = [calc EXCEPT !.stage = "normalized", !.config = normalize(calc.config)]
    /\ UNCHANGED <<world, resolver, cache, last, returned>>

\* ConfigOps.normalizeToStrings(config)
NormalizeToStrings ==
    /\ calc.op = "severity"
    /\ calc.stage = "normalized"
    /\ calc' = [calc EXCEPT !.stage = "strings", !.config = normalizeToStrings(calc.config)]
    /\ UNCHANGED <<world, resolver, cache, last, returned>>

NextSeverity == Normalize \/ NormalizeToStrings

SpecSeverity == InitSeverity /\ [][NextSeverity]_vars

\* the severities a rule entry of the model is given with: numbers in and out of range,
\* texts, and values of other types
GivenSeverities ==
    {N(0), N(1), N(2), N(3)} \cup {S(t) : t \in SeverityTexts} \cup {B(TRUE), Null}

\* rule entries: a severity alone, first in an array with an option, and the empty array
SeverityEntries ==
    GivenSeverities \cup {A(<<g, S("always")>>) : g \in GivenSeverities} \cup {EmptyArr}

\* the rules of a config: none, one or two rules
InitPredicates ==
    /\ NoResolver
    /\ \E rules \in {EmptyObj} \cup {O(<< <<"r1", e>> >>) : e \in SeverityEntries}
                    \cup {O(<< <<"r1", e1>>, <<"r2", e2>> >>) :
                              e1 \in SeverityEntries, e2 \in SeverityEntries} :
          calc = [op |-> "predicates", done |-> FALSE, rules |-> rules,
                  error |-> <<>>, valid |-> <<>>, every |-> FALSE]

\* isErrorSeverity and isValidSeverity of every rule, and isEverySeverityValid of the rules
CheckSeverities ==
    /\ calc.op = "predicates"
    /\ ~calc.done
    /\ calc' = [calc EXCEPT
                   !.done = TRUE,
                   !.error = [i \in 1..Len(Val(calc.rules)) |->
                                 isErrorSeverity(Val(calc.rules)[i][2])],
                   !.valid = [i \in 1..Len(Val(calc.rules)) |->
                                 isValidSeverity(Val(calc.rules)[i][2])],
                   !.every = isEverySeverityValid(calc.rules)]
    /\ UNCHANGED <<world, resolver, cache, last, returned>>

NextPredicates == CheckSeverities

SpecPredicates == InitPredicates /\ [][NextPredicates]_vars

\* ------------------------------------------------------------ rules/no-undefined.js

\* A linted fragment is one parent node with its child nodes in traversal order:
\* parent = [type, computed, shorthand], a child = [slot, type, name]. In a shorthand
\* property the key and the value are one Identifier node, visited in both slots.

\* node === node.parent.property
IsParentProperty(parent, child) == child.slot = "property"

\* node === node.parent.key
IsParentKey(parent, child) == child.slot = "key" \/ (parent.shorthand /\ child.slot = "value")

\* isValidUndefinedIdentifier(node) of the rule without a Property visitor
isValidUndefinedIdentifier(parent, child) ==
    CASE parent.type = "MemberExpression" -> IsParentProperty(parent, child) /\ ~parent.computed
      [] parent.type = "Property" -> IsParentKey(parent, child) /\ ~parent.computed
      [] OTHER -> FALSE

\* isInvalidUndefinedIdentifier(node) of the rule with a Property visitor
isInvalidUndefinedIdentifier(parent, child) ==
    CASE parent.type = "MemberExpression" -> ~IsParentProperty(parent, child) \/ parent.computed
      [] parent.type = "Property" -> FALSE
      [] parent.type = "MethodDefinition" -> parent.computed
      [] OTHER -> TRUE

\* the Identifier visitor of either rule: whether the node is reported
IdentifierReports(version, parent, child) ==
    /\ child.type = "Identifier"
    /\ child.name = "undefined"
    /\ IF version = "valid"
       THEN ~isValidUndefinedIdentifier(parent, child)
       ELSE isInvalidUndefinedIdentifier(parent, child)

\* the Property visitor: the slots it reports (node.value when that is the identifier
\* undefined); the rule without a Property visitor reports nothing on a Property node
PropertyReports(version, parent, children) ==
    IF version = "invalid" /\ parent.type = "Property"
    THEN SelectSeq([i \in 1..Len(children) |-> children[i].slot],
                   LAMBDA slot : \E i \in 1..Len(children) :
                       /\ children[i].slot = slot /\ slot = "value"
                       /\ children[i].type = "Identifier" /\ children[i].name = "undefined")
    ELSE <<>>

\* the two rules: with isValidUndefinedIdentifier, with isInvalidUndefinedIdentifier
RuleVersions == {"valid", "invalid"}

\* the names of the identifiers of a fragment
IdentifierNames == {"undefined", "undefine"}

Identifier(slot, name) == [slot |-> slot, type |-> "Identifier", name |-> name]
OtherNode(slot) == [slot |-> slot, type |-> "Other", name |-> ""]
ParentNode(type, computed, shorthand) ==
    [type |-> type, computed |-> computed, shorthand |-> shorthand]

\* the fragments: a.b and a[b], properties of object literals and patterns (shorthand
\* included), methods of classes, and parents of other types with one identifier
Fragments ==
    {[parent |-> ParentNode("MemberExpression", c, FALSE), children |-> <<o, Identifier("property", n)>>] :
        c \in BOOLEAN, n \in IdentifierNames,
        o \in {Identifier("object", m) : m \in IdentifierNames} \cup {OtherNode("object")}}
    \cup
    {[parent |-> ParentNode("Property", c, FALSE), children |-> <<Identifier("key", n), v>>] :
        c \in BOOLEAN, n \in IdentifierNames,
        v \in {Identifier("value", m) : m \in IdentifierNames} \cup {OtherNode("value")}}
    \cup
    {[parent |-> ParentNode("Property", FALSE, TRUE),
      children |-> <<Identifier("key", n), Identifier("value", n)>>] : n \in IdentifierNames}
    \cup
    {[parent |-> ParentNode("MethodDefinition", c, FALSE),
      children |-> <<Identifier("key", n), OtherNode("value")>>] :
        c \in BOOLEAN, n \in IdentifierNames}
    \cup
    {[parent |-> ParentNode(t, FALSE, FALSE), children |-> <<Identifier("child", n)>>] :
        t \in {"ExpressionStatement", "CallExpression", "VariableDeclarator",
               "FunctionDeclaration", "FunctionExpression", "CatchClause",
               "AssignmentExpression"},
        n \in IdentifierNames}

\* a fragment about to be traversed by one of the rules
InitLint ==
    /\ NoResolver
    /\ \E version \in RuleVersions, f \in Fragments :
          calc = [op |-> "lint", version |-> version, parent |-> f.parent,
                  children |-> f.children, pos |-> 0, entered |-> FALSE, reports |-> <<>>]

\* the traversal enters the parent node: its visitor runs
EnterParent ==
    /\ calc.op = "lint"
    /\ ~calc.entered
    /\ calc' = [calc EXCEPT
                   !.entered = TRUE,
                   !.reports = @ \o PropertyReports(calc.version, calc.parent, calc.children)]
    /\ UNCHANGED <<world, resolver, cache, last, returned>>

\* the traversal enters the next child node: the Identifier visitor runs on an identifier
EnterChild ==
    /\ calc.op = "lint"
    /\ calc.entered
    /\ calc.pos < Len(calc.children)
    /\ calc' = [calc EXCEPT
                   !.pos = @ + 1,
                   !.reports = IF IdentifierReports(calc.version, calc.parent,
                                                    calc.children[calc.pos + 1])
                               THEN Append(@, calc.children[calc.pos + 1].slot)
                               ELSE @]
    /\ UNCHANGED <<world, resolver, cache, last, returned>>

NextLint == EnterParent \/ EnterChild

SpecLint == InitLint /\ [][NextLint]_vars

\* the directories and the config sources of the hierarchy table
HierarchyDirectories == {"/p", "/p/a", "/p/a/b"}
HierarchySources == {"/p/.eslintrc", "/p/a/.eslintrc", "/p/a/b/.eslintrc"}

\* the longest list of directories and of configs
MaxHierarchy == 3

\* lists without a repeated element
Distinct(l) == \A i, j \in 1..Len(l) : l[i] = l[j] => i = j

\* the searched directories of a walk, nearest first, and the configs passed with them:
\* getLocalConfigHierarchy pushes a directory only together with a config, so there are
\* never more directories than configs, and no directory is walked twice
HierarchyCalls ==
    {c \in [directories : {l \in ListsUpTo(HierarchyDirectories, MaxHierarchy) : Distinct(l)},
            configs : ListsUpTo(HierarchySources, MaxHierarchy)] :
        Len(c.directories) <= Len(c.configs)}

\* hierarchy tables an earlier walk has left
HierarchyTables ==
    {EmptyMap,
     setHierarchyLocalConfigs(EmptyMap, <<"/p">>, <<"/p/.eslintrc">>),
     setHierarchyLocalConfigs(EmptyMap, <<"/p/a", "/p">>, <<"/p/.eslintrc", "/p/a/.eslintrc">>)}

\* a hierarchy table and the arguments of a call
InitHierarchy ==
    /\ NoResolver
    /\ \E lh \in HierarchyTables, c \in HierarchyCalls :
          calc = [op |-> "hierarchy", before |-> lh, lh |-> lh,
                  directories |-> c.directories, configs |-> c.configs, done |-> FALSE]

\* configCache.setHierarchyLocalConfigs(directories, configs)
SetHierarchyLocalConfigs ==
    /\ calc.op = "hierarchy"
    /\ ~calc.done
    /\ calc' = [calc EXCEPT
                   !.done = TRUE,
                   !.lh = setHierarchyLocalConfigs(calc.lh, calc.directories, calc.configs)]
    /\ UNCHANGED <<world, resolver, cache, last, returned>>

NextHierarchy == SetHierarchyLocalConfigs

SpecHierarchy == InitHierarchy /\ [][NextHierarchy]_vars

\* ------------------------------------------------------------ properties of the resolver

\* C1: any two getConfig calls of one resolver whose vectors are equal return configs that
\* are equal by value, and each returned config is the final-merge entry of its vector
CacheCoherency ==
    /\ \A p, q \in returned : p[2] = q[2] => p[3] = q[3]
    /\ \A p \in returned : getMergedConfig(cache.mergedCache, p[2]) = p[3]

\* two different files with one vector, the later one served from the final-merge table
CacheCoherencyWitness ==
    /\ last.cached
    /\ \E p \in returned : p[1] # last.file /\ p[2] = last.vector

\* whether the walk uses the config file of directory d: it parses to something and is not
\* the personal directory's file (unless that is the working directory)
Usable(w, d) ==
    /\ Content(w, ConfigFileOf(d)) # Undef
    /\ ~(S(d) = w.home /\ d # Cwd)

\* the nearest directory at or above d whose usable config has root: true, "" if none
NearestRoot(w, d) ==
    LET roots == {i \in 1..Len(Ancestors[d]) :
                     /\ Usable(w, Ancestors[d][i])
                     /\ Get(Content(w, ConfigFileOf(Ancestors[d][i])), "root") = B(TRUE)}
    IN  IF roots = {} THEN ""
        ELSE Ancestors[d][CHOOSE i \in roots : \A j \in roots : i <= j]

\* C2: the local hierarchy of a target directory holds no source of a directory above the
\* nearest ancestor whose config has root: true, whatever was resolved before
RootTruncation ==
    (last.file # "" /\ ~last.threw /\ NearestRoot(world, last.directory) # "") =>
        \A i \in 1..Len(last.localConfigs) :
            pathIsInside(Dirname(last.localConfigs[i]), NearestRoot(world, last.directory))

\* whether a personal config exists
PersonalExists(w) == Truthy(w.home) /\ Content(w, ConfigFileOf(Val(w.home))) # Undef

\* C3: getLocalConfigHierarchy raises "No ESLint configuration found" exactly when no
\* directory from the target's upward has a usable config, no config file was named on
\* the command line, no personal config exists, the options hold no rule and no base
\* config was given; the error carries the directory and the files examined
FatalPath ==
    last.file # "" =>
        /\ last.threw <=>
              /\ resolver.useEslintrc
              /\ \A d \in Range(Ancestors[last.directory]) : ~Usable(world, d)
              /\ resolver.options.configFile = Undef
              /\ ~PersonalExists(world)
              /\ (resolver.options.rules = Undef \/ resolver.options.rules = EmptyObj)
              /\ resolver.options.baseConfig = Undef
        /\ last.threw =>
              /\ last.error.message = "No ESLint configuration found."
              /\ last.error.directory = Dirname(last.file)
              /\ last.error.filesExamined = findLocalConfigFiles(world, Dirname(last.file))

\* a call that raised the error although the options carry a rules object (an empty one)
FatalPathWitness == last.threw /\ resolver.options.rules = EmptyObj

\* the override blocks the vector names: for each index token, the block of the source
\* named by the nearest string token before it
MatchedBlocks(fp, vector) ==
    {At(Get(Source(fp, Val(ParentConfigKey(vector, i))), "overrides"), Val(vector[i]) + 1) :
        i \in {j \in 1..Len(vector) : Tag(vector[j]) = "num"}}

\* the depth of the directory a source lies in
Depth(ref) == Len(Ancestors[Dirname(ref)])

\* the source of the hierarchy whose value for rule k must win: the command line config
\* file, else the local source of the deepest directory, else the base config
WinningSource(fp, hierarchy, k) ==
    LET setters == {ref \in Range(hierarchy) : Has(Get(Source(fp, ref), "rules"), k)}
        locals == setters \ {"", CliConfigFile}
    IN  IF CliConfigFile \in setters THEN CliConfigFile
        ELSE IF locals # {} THEN CHOOSE ref \in locals : \A o \in locals : Depth(o) <= Depth(ref)
        ELSE ""

\* the rules the sources give as scalars
ScalarRules == {"r1", "rb", "rc"}

\* C4: a scalar rule set by several sources of the hierarchy (and by no matched override
\* block and no command line option) resolves to the value of the command line config
\* file, else of the nearest directory's config, else of the base config
SourcePrecedence ==
    (last.file # "" /\ ~last.threw) =>
        \A k \in ScalarRules :
            LET fp == cache.filePathCache
                setters == {ref \in Range(last.hierarchy) : Has(Get(Source(fp, ref), "rules"), k)}
            IN  (/\ setters # {}
                 /\ \A b \in MatchedBlocks(fp, last.vector) : ~Has(Get(b, "rules"), k)
                 /\ ~Has(resolver.cliConfig, "rules") \/ ~Has(Get(resolver.cliConfig, "rules"), k))
                => Get(Get(last.config, "rules"), k)
                     = Get(Get(Source(fp, WinningSource(fp, last.hierarchy, k)), "rules"), k)

\* three directory configs and the base config all set r1, the nearest one wins after
\* the farther ones were resolved and cached
SourcePrecedenceWitness ==
    /\ last.file = "/p/a/b/x.js" /\ ~last.threw
    /\ Len(last.localConfigs) = 3
    /\ resolver.options.baseConfig # Undef
    /\ "/p/a" \in DOMAIN cache.localHierarchyCache
    /\ \E p \in returned : p[1] = "/p/a/z.js"
    /\ Get(Get(last.config, "rules"), "r1") = N(0)

\* the severity of a rule entry: the entry, or its first element when it is an array
Severity(ruleConfig) == IF IsArray(ruleConfig) THEN At(ruleConfig, 1) ELSE ruleConfig

\* the filesystem merge of a vector, as the partial-merge table holds it after the call
FsConfig(vector) == getMergedVectorConfig(cache.mergedVectorCache, vector)

\* whether the command line entry c of a rule prevails in the resolved entry v: a scalar
\* severity is v's severity, an array is v itself or, with one element, v's first element
RulePrevails(c, v) ==
    IF IsArray(c)
    THEN /\ IsArray(v)
         /\ Len(Val(v)) >= Len(Val(c))
         /\ SubSeq(Val(v), 1, Len(Val(c))) = Val(c)
         /\ Len(Val(c)) > 1 => v = c
    ELSE Severity(v) = c

CliSections == {"rules", "env", "globals", "parserOptions"}

\* C5: every key given through the command line options (rules, env, globals,
\* parserOptions) prevails in the resolved config over the filesystem merge of the
\* vector, and a filesystem key the command line does not give keeps its filesystem value
CliPrecedence ==
    (last.file # "" /\ ~last.threw) =>
        LET cli == resolver.cliConfig
            fs == FsConfig(last.vector)
            out == last.config
        IN  /\ \A sec \in CliSections \ {"rules"} : \A k \in KeySet(Get(cli, sec)) :
                   Get(Get(out, sec), k) = Get(Get(cli, sec), k)
            /\ \A k \in KeySet(Get(cli, "rules")) :
                   RulePrevails(Get(Get(cli, "rules"), k), Get(Get(out, "rules"), k))
            /\ \A sec \in CliSections : \A k \in KeySet(Get(fs, sec)) \ KeySet(Get(cli, sec)) :
                   Get(Get(out, sec), k) = Get(Get(fs, sec), k)

\* the command line gives rules, an environment, globals and parser options to a target
\* whose directory configs set some of the same keys and some others
CliPrecedenceWitness ==
    /\ last.file = "/p/a/b/x.js" /\ ~last.threw /\ ~last.cached
    /\ Len(last.localConfigs) = 3
    /\ Get(Get(resolver.cliConfig, "rules"), "r2") = N(0)
    /\ Get(Get(FsConfig(last.vector), "rules"), "r2") = A(<<N(1), S("x")>>)
    /\ Get(Get(last.config, "rules"), "r2") = A(<<N(0), S("x")>>)
    /\ Get(Get(resolver.cliConfig, "globals"), "g") = B(FALSE)
    /\ Get(Get(FsConfig(last.vector), "globals"), "g") = B(TRUE)
    /\ Has(Get(resolver.cliConfig, "env"), "node")
    /\ Has(Get(resolver.cliConfig, "parserOptions"), "ecmaVersion")
    /\ Get(Get(last.config, "rules"), "r4") = N(2)

\* ------------------------------------------------------------ properties of merge

\* a value that is neither an array nor an object
IsScalar(v) == ~TypeofObject(v)

\* the operands and the result of the latest merge of the fold
MergeDone == calc.op = "merge" /\ Len(calc.srcs) > 1
MergeA == calc.prev
MergeB == calc.srcs[Len(calc.srcs)]

\* C6: for mappings A and B with disjoint keys merge(A, B) has exactly the keys of both,
\* each with its value; a key of both with scalar values has B's value
MergePrecedence ==
    MergeDone =>
        /\ KeySet(MergeA) \cap KeySet(MergeB) = {} =>
              /\ KeySet(calc.acc) = KeySet(MergeA) \cup KeySet(MergeB)
              /\ \A k \in KeySet(MergeA) : Get(calc.acc, k) = Get(MergeA, k)
              /\ \A k \in KeySet(MergeB) : Get(calc.acc, k) = Get(MergeB, k)
        /\ \A k \in KeySet(MergeA) \cap KeySet(MergeB) :
              (IsScalar(Get(MergeA, k)) /\ IsScalar(Get(MergeB, k)))
                  => Get(calc.acc, k) = Get(MergeB, k)

\* a merge of operands with disjoint keys, and one of operands that share a scalar key
\* with different values
MergePrecedenceWitness ==
    /\ MergeDone
    /\ \/ /\ KeySet(MergeA) \cap KeySet(MergeB) = {}
          /\ Has(MergeA, "rules") /\ Has(MergeB, "plugins")
       \/ /\ Get(MergeA, "parser") = S("p1") /\ Get(MergeB, "parser") = S("p2")
          /\ Get(calc.acc, "parser") = S("p2")

\* two mappings with the same keys and the same value under each key
SameMapping(a, b) == KeySet(a) = KeySet(b) /\ \A k \in KeySet(a) : Get(a, k) = Get(b, k)

\* C7: merge(A, {}) is structurally equal to A, whatever the order of the keys
MergeIdentity == (MergeDone /\ MergeB = EmptyObj) => SameMapping(calc.acc, MergeA)

\* the empty config merged into a config with rules, plugins and overrides
MergeIdentityWitness ==
    /\ MergeDone /\ MergeB = EmptyObj
    /\ {"rules", "plugins", "overrides"} \subseteq KeySet(MergeA)

RECURSIVE OverridesOf(_, _)
\* the override blocks of the first n sources of a fold, in order
OverridesOf(srcs, n) ==
    IF n = 0 THEN <<>>
    ELSE OverridesOf(srcs, n - 1)
         \o (IF Has(srcs[n], "overrides") THEN Val(Get(srcs[n], "overrides")) ELSE <<>>)

\* C8: when A and B both have overrides, merge(A, B).overrides is A's blocks followed by
\* B's, none dropped, merged or de-duplicated; at every step of a fold the accumulated
\* overrides are the blocks of the sources folded so far, in order
OverridesConcatenation ==
    calc.op = "merge" =>
        /\ (MergeDone /\ Has(MergeA, "overrides") /\ Has(MergeB, "overrides")) =>
              Get(calc.acc, "overrides")
                  = A(Val(Get(MergeA, "overrides")) \o Val(Get(MergeB, "overrides")))
        /\ (\E i \in 1..Len(calc.srcs) : Has(calc.srcs[i], "overrides")) =>
              Get(calc.acc, "overrides") = A(OverridesOf(calc.srcs, Len(calc.srcs)))

\* a fold of three sources with overrides, one block occurring twice
OverridesConcatenationWitness ==
    /\ calc.op = "merge" /\ Len(calc.srcs) = 3
    /\ \A i \in 1..3 : Has(calc.srcs[i], "overrides")
    /\ calc.srcs[1] = calc.srcs[3]
    /\ Len(Val(Get(calc.acc, "overrides"))) = 4

\* ------------------------------------------------------------ properties of the plugin lists

RECURSIVE FirstAppearances(_)
\* the elements of a sequence, each once, in the order they first appear
FirstAppearances(seq) ==
    IF seq = <<>> THEN <<>>
    ELSE LET front == FirstAppearances(SubSeq(seq, 1, Len(seq) - 1))
             e == seq[Len(seq)]
         IN  IF e \in Range(front) THEN front ELSE Append(front, e)

\* C9: for any two plugin lists P and Q, merge({plugins: P}, {plugins: Q}).plugins holds
\* every name of P and Q exactly once, in the order of first appearance
PluginDeduplication ==
    (calc.op = "plugins" /\ calc.done) =>
        Get(calc.out, "plugins") = A(FirstAppearances(calc.p \o calc.q))

\* the example of the claim, which the code does satisfy: ["x"] merged with ["x", "y"]
PluginDeduplicationExample ==
    /\ calc.op = "plugins" /\ calc.done
    /\ calc.p = <<S("x")>> /\ calc.q = <<S("x"), S("y")>>
    /\ Get(calc.out, "plugins") = A(<<S("x"), S("y")>>)

\* ------------------------------------------------------------ properties of the severities

\* a text isValidSeverity accepts: off, warn or error in any letter case
ValidText(text) == ToLowerCase(text) \in Range(RULE_SEVERITY_STRINGS)

\* the severity of a rule entry: the entry itself, or the first element of an array
SeverityOf(ruleConfig) == IF IsArray(ruleConfig) THEN At(ruleConfig, 1) ELSE ruleConfig

\* the rule ids of the configs of the model
RuleIds == {"r1", "r2"}

\* C10: after normalize and then normalizeToStrings a valid textual severity, in any letter
\* case, is the text the config was given with; an invalid textual severity is 0 after
\* normalize and "off" after normalizeToStrings
SeverityRoundTrip ==
    calc.op = "severity" =>
        \A r \in RuleIds :
            LET given == SeverityOf(Get(Get(calc.given, "rules"), r))
                now == SeverityOf(Get(Get(calc.config, "rules"), r))
            IN  /\ (calc.stage = "strings" /\ ValidText(Val(given))) => now = given
                /\ (calc.stage = "normalized" /\ ~ValidText(Val(given))) => now = N(0)
                /\ (calc.stage = "strings" /\ ~ValidText(Val(given))) => now = S("off")

\* off, warn and error in the letter cases of the model
AnyCase(text) ==
    CASE text = "off" -> {"off", "OFF"}
      [] text = "warn" -> {"warn", "Warn"}
      [] text = "error" -> {"error", "ERROR"}

\* C31: isValidSeverity holds iff the severity of the entry (the entry, or the first
\* element of an array) is 0, 1, 2 or off, warn, error in any letter case;
\* isErrorSeverity holds iff it is 2 or error in any letter case; isErrorSeverity implies
\* isValidSeverity; isEverySeverityValid holds iff isValidSeverity holds for every rule
SeverityPredicates ==
    (calc.op = "predicates" /\ calc.done) =>
        /\ \A i \in 1..Len(Val(calc.rules)) :
              LET severity == SeverityOf(Val(calc.rules)[i][2])
              IN  /\ calc.valid[i] <=>
                        \/ severity \in {N(0), N(1), N(2)}
                        \/ severity \in {S(t) : t \in AnyCase("off") \cup AnyCase("warn")
                                                         \cup AnyCase("error")}
                  /\ calc.error[i] <=>
                        (severity = N(2) \/ severity \in {S(t) : t \in AnyCase("error")})
                  /\ calc.error[i] => calc.valid[i]
        /\ calc.every <=> \A i \in 1..Len(Val(calc.rules)) : calc.valid[i]

\* a rule given as ["ERROR", option], an error and valid, beside a rule with the severity
\* constructor, neither: not every severity is valid
SeverityPredicatesWitness ==
    /\ calc.op = "predicates" /\ calc.done
    /\ Len(Val(calc.rules)) = 2
    /\ Val(calc.rules)[1][2] = A(<<S("ERROR"), S("always")>>)
    /\ Val(calc.rules)[2][2] = S("constructor")
    /\ calc.error = <<TRUE, FALSE>>
    /\ calc.valid = <<TRUE, FALSE>>
    /\ ~calc.every

\* ------------------------------------------------------------ properties of the vector

\* the positions of the vector that hold the key of a source
KeyPositions(vector) == {i \in 1..Len(vector) : Tag(vector[i]) = "str"}

\* the index tokens that follow the key at position p, up to the next key
IndexPositions(vector, p) ==
    {j \in (p + 1)..Len(vector) : \A m \in (p + 1)..j : Tag(vector[m]) = "num"}

\* the patterns of an override block, as a set of texts
PatternsOf(block) == {Val(x) : x \in Range(ConcatArg(Get(block, "files")))}

\* the target path relative to the base directory of a source
RelativePath(filePath, config) ==
    Substr(filePath, Len(Val(Get(config, "baseDirectory"))) + 1)

\* C11: the vector lists index i behind the key of a source exactly when every pattern of
\* the files of that source's override block i matches the target path relative to the
\* source's base directory; a block with only some patterns matching gives no index
ConjunctiveMatch ==
    (last.file # "" /\ ~last.threw) =>
        \A p \in KeyPositions(last.vector) :
            LET config == Source(cache.filePathCache, Val(last.vector[p]))
                blocks == ConcatArg(IF Has(config, "overrides")
                                    THEN Get(config, "overrides") ELSE EmptyArr)
                listed == {Val(last.vector[j]) : j \in IndexPositions(last.vector, p)}
            IN  \A i \in 0..(Len(blocks) - 1) :
                    i \in listed <=>
                        \A pattern \in PatternsOf(blocks[i + 1]) :
                            minimatch(RelativePath(last.file, config), pattern)

\* a target that satisfies one of the two patterns of a block (b/** but not *.ts): the key
\* of /p/a/.eslintrc is in the vector and no index follows it
ConjunctiveMatchWitness ==
    /\ last.file = "/p/a/b/x.js" /\ ~last.threw
    /\ \E p \in KeyPositions(last.vector) :
          /\ last.vector[p] = S("/p/a/.eslintrc")
          /\ IndexPositions(last.vector, p) = {}
    /\ minimatch("b/x.js", "b/**") /\ ~minimatch("b/x.js", "*.ts")

\* ------------------------------------------------------------ properties of the resolved config

\* the shallow config token i of the vector stands for: a source, or the override block of
\* the nearest source named before it
TokenConfig(fp, vector, i) ==
    IF Tag(vector[i]) = "str"
    THEN Source(fp, Val(vector[i]))
    ELSE At(Get(Source(fp, Val(ParentConfigKey(vector, i))), "overrides"), Val(vector[i]) + 1)

\* the tokens of the vector whose shallow config sets key k
Setters(fp, vector, k) == {i \in 1..Len(vector) : Has(TokenConfig(fp, vector, i), k)}

\* the greatest element of a non-empty set of numbers
Max(set) == CHOOSE n \in set : \A m \in set : m <= n

\* C12: every config getConfig returns has a parser key; with a parser given on the
\* command line the key holds that parser, otherwise the parser of the latest source or
\* override block of the chain that sets one
ParserPinning ==
    (last.file # "" /\ ~last.threw) =>
        /\ Has(last.config, "parser")
        /\ Truthy(resolver.parser) => Get(last.config, "parser") = resolver.parser
        /\ ~Truthy(resolver.parser) =>
              LET fp == cache.filePathCache
                  setters == Setters(fp, last.vector, "parser")
              IN  setters # {} =>
                      Get(last.config, "parser")
                          = Get(TokenConfig(fp, last.vector, Max(setters)), "parser")

\* the command line names parser pc for a target whose directory configs set pp and pb
ParserPinningWitness ==
    /\ last.file = "/p/a/b/x.js" /\ ~last.threw
    /\ resolver.parser = S("pc")
    /\ Get(FsConfig(last.vector), "parser") = S("pb")
    /\ Get(last.config, "parser") = S("pc")

\* the bookkeeping keys of a source
BookkeepingKeys == {"overrides", "filePath", "baseDirectory"}

\* C13: no config getConfig returns, for any vector, has an overrides, filePath or
\* baseDirectory key
MergedConfigShape == \A p \in returned : KeySet(p[3]) \cap BookkeepingKeys = {}

\* the sections of a config the environments contribute to
EnvSections == {"globals", "parserOptions"}

\* the enabled environments of env that define key k in section sec, as positions of env
Definers(env, sec, k) ==
    {i \in 1..Len(Val(env)) :
        /\ Truthy(Val(env)[i][2])
        /\ Has(Get(EnvironmentsGet(Val(env)[i][1]), sec), k)}

\* the keys of section sec the enabled environments of env define
EnvKeys(env, sec) ==
    UNION {KeySet(Get(EnvironmentsGet(Val(env)[i][1]), sec)) :
              i \in {j \in 1..Len(Val(env)) : Truthy(Val(env)[j][2])}}

\* C14: in the config getConfig returns, a globals or parserOptions key the merged config
\* sets explicitly (on the command line, else in the filesystem merge) keeps that value
\* even when an enabled environment defines the key; a key only enabled environments
\* define has the environment's value (the last such environment's, in the order of env)
EnvironmentDefaults ==
    (last.file # "" /\ ~last.threw) =>
        LET cli == resolver.cliConfig
            fs == FsConfig(last.vector)
            out == last.config
            env == Get(out, "env")
        IN  \A sec \in EnvSections :
                LET explicit == KeySet(Get(cli, sec)) \cup KeySet(Get(fs, sec))
                IN  /\ KeySet(Get(out, sec)) = explicit \cup EnvKeys(env, sec)
                    /\ \A k \in explicit :
                           Get(Get(out, sec), k)
                               = IF Has(Get(cli, sec), k)
                                 THEN Get(Get(cli, sec), k) ELSE Get(Get(fs, sec), k)
                    /\ \A k \in EnvKeys(env, sec) \ explicit :
                           Get(Get(out, sec), k)
                               = Get(Get(EnvironmentsGet(
                                             Val(env)[Max(Definers(env, sec, k))][1]), sec), k)

\* browser and node are enabled; process and ecmaVersion are set on the command line and
\* by node, g by a directory config and by browser, window by the environments only
EnvironmentDefaultsWitness ==
    /\ last.file = "/p/a/b/x.js" /\ ~last.threw
    /\ Get(Get(last.config, "env"), "browser") = B(TRUE)
    /\ Get(Get(last.config, "env"), "node") = B(TRUE)
    /\ Get(Get(last.config, "globals"), "process") = B(TRUE)
    /\ Get(Get(EnvironmentsGet("node"), "globals"), "process") = B(FALSE)
    /\ Get(Get(last.config, "parserOptions"), "ecmaVersion") = N(5)
    /\ Get(Get(last.config, "globals"), "window") = B(TRUE)
    /\ ~Has(Get(FsConfig(last.vector), "globals"), "window")

\* ------------------------------------------------------------ properties of no-undefined

\* the allowed positions of an identifier named undefined
AllowedPosition(parent, slot) ==
    /\ ~parent.computed
    /\ \/ parent.type = "MemberExpression" /\ slot = "property"
       \/ parent.type = "Property" /\ slot = "key"
       \/ parent.type = "MethodDefinition" /\ slot = "key"

\* the slots of a fragment that hold an identifier named undefined outside the allowed
\* positions
ExpectedReports(parent, children) ==
    {children[i].slot : i \in {j \in 1..Len(children) :
        /\ children[j].type = "Identifier"
        /\ children[j].name = "undefined"
        /\ ~AllowedPosition(parent, children[j].slot)}}

\* C15: once a fragment is traversed, an identifier named undefined has been reported
\* exactly when it is outside the allowed positions (non-computed property of a member
\* expression, non-computed key of a property or of a method), and once
NoUndefinedReports ==
    (calc.op = "lint" /\ calc.entered /\ calc.pos = Len(calc.children)) =>
        /\ Range(calc.reports) = ExpectedReports(calc.parent, calc.children)
        /\ Len(calc.reports) = Cardinality(ExpectedReports(calc.parent, calc.children))

\* ------------------------------------------------------------ properties of the partial-merge cache

\* the fold of all tokens of the vector from the empty config, no table consulted
UncachedFold(fp, vector) == FoldVector(fp, EmptyMap, vector, 1, EmptyObj, Undef).config

\* the proper prefixes of the vector, longer than the base key alone, that have an entry
\* in the partial-merge table
CachedProperPrefixes(vector) ==
    {n \in 2..(Len(vector) - 1) : hash(SubSeq(vector, 1, n)) \in DOMAIN cache.mergedVectorCache}

\* C16: the config getConfigFromVector returns for a vector equals the fold of all the
\* tokens of the vector from the empty config, whatever the partial-merge table held
CacheTransparency ==
    (last.file # "" /\ ~last.threw /\ ~last.cached) =>
        last.fsConfig = UncachedFold(cache.filePathCache, last.vector)

\* a resolve that resumed from a partial merge an earlier resolve had stored
CacheTransparencyWitness ==
    /\ last.file # "" /\ ~last.threw /\ ~last.cached
    /\ CachedProperPrefixes(last.vector) # {}
    /\ last.fsConfig = UncachedFold(cache.filePathCache, last.vector)

\* the prefix of the vector with its first n tokens
Prefix(vector, n) == SubSeq(vector, 1, n)

\* the partial-merge table holds the fold of the first n tokens under their key
HoldsFold(c, vector, n) ==
    /\ hash(Prefix(vector, n)) \in DOMAIN c.mergedVectorCache
    /\ getMergedVectorConfig(c.mergedVectorCache, Prefix(vector, n))
           = UncachedFold(c.filePathCache, Prefix(vector, n))

\* C17: a resolve that folds the tokens after the nearest cached prefix (of length j, 0
\* when there is none) leaves, for every prefix of the vector longer than j, an entry in
\* the partial-merge table equal to the fold of that prefix
PrefixCaching ==
    [][(last'.file # "" /\ ~last'.threw /\ ~last'.cached) =>
           \A n \in (NearestCached(cache.mergedVectorCache, last'.vector) + 1)..Len(last'.vector) :
               HoldsFold(cache', last'.vector, n)]_vars

\* ------------------------------------------------------------ properties of the hierarchy cache

\* the local hierarchy of directory d computed with an empty hierarchy table
HierarchyFromEmpty(d) ==
    getLocalConfigHierarchy(world, resolver, cache.filePathCache, EmptyMap, d).configs

\* C18: the local hierarchy a resolve obtains for its directory is the one the walk
\* computes with an empty hierarchy table, whatever earlier resolves have stored
OrderIndependence ==
    (last.file # "" /\ ~last.threw /\ resolver.useEslintrc) =>
        last.localConfigs = HierarchyFromEmpty(last.directory)

\* C19: after setHierarchyLocalConfigs(directories, configs) the table maps the directory
\* at index i (0 the nearest) to the first len(configs) - i configs, and every directory
\* not listed to what it held before
HierarchySuffixes ==
    (calc.op = "hierarchy" /\ calc.done) =>
        /\ \A i \in 1..Len(calc.directories) :
              getHierarchyLocalConfigs(calc.lh, calc.directories[i])
                  = SubSeq(calc.configs, 1, Len(calc.configs) - (i - 1))
        /\ DOMAIN calc.lh = DOMAIN calc.before \cup Range(calc.directories)
        /\ \A d \in DOMAIN calc.before \ Range(calc.directories) : calc.lh[d] = calc.before[d]

\* a call with two directories on a table whose entry of another directory is kept
HierarchySuffixesWitness ==
    /\ calc.op = "hierarchy" /\ calc.done
    /\ calc.directories = <<"/p/a/b", "/p/a">>
    /\ calc.configs = <<"/p/.eslintrc", "/p/a/.eslintrc", "/p/a/b/.eslintrc">>
    /\ DOMAIN calc.before = {"/p"}
    /\ getHierarchyLocalConfigs(calc.lh, "/p") = <<"/p/.eslintrc">>
    /\ getHierarchyLocalConfigs(calc.lh, "/p/a") = <<"/p/.eslintrc", "/p/a/.eslintrc">>
    /\ getHierarchyLocalConfigs(calc.lh, "/p/a/b") = calc.configs

\* ------------------------------------------------------------ properties of the vector's form

\* the keys of the vector in their order
KeysOf(vector) == SelectSeq(vector, LAMBDA t : Tag(t) = "str")

\* the number of override blocks of the source with key ref
BlockCount(ref) ==
    Len(ConcatArg(IF Has(Source(cache.filePathCache, ref), "overrides")
                  THEN Get(Source(cache.filePathCache, ref), "overrides") ELSE EmptyArr))

\* C20: the vector starts with the key "" of the base source, its keys are the keys of the
\* hierarchy's sources in hierarchy order, the indices behind a key are indices of that
\* source's override blocks in strictly ascending order, and every index has a key before it
VectorWellFormed ==
    (last.file # "" /\ ~last.threw) =>
        /\ Len(last.vector) >= 1
        /\ last.vector[1] = S("")
        /\ KeysOf(last.vector) = [i \in 1..Len(last.hierarchy) |-> S(last.hierarchy[i])]
        /\ \A p \in KeyPositions(last.vector) :
              \A j \in IndexPositions(last.vector, p) :
                  /\ Val(last.vector[j]) \in 0..(BlockCount(Val(last.vector[p])) - 1)
                  /\ j > p + 1 => Val(last.vector[j - 1]) < Val(last.vector[j])
        /\ \A j \in 1..Len(last.vector) :
              Tag(last.vector[j]) = "num" => \E p \in KeyPositions(last.vector) : p < j

\* a vector with two indices behind one key and a key behind them
VectorWellFormedWitness ==
    /\ last.file # "" /\ ~last.threw
    /\ \E p \in KeyPositions(last.vector) :
          /\ Cardinality(IndexPositions(last.vector, p)) >= 2
          /\ \E q \in KeyPositions(last.vector) : q > p
    /\ KeysOf(last.vector) = [i \in 1..Len(last.hierarchy) |-> S(last.hierarchy[i])]

\* ------------------------------------------------------------ properties of init() and the constructor

\* the four tables are empty
TablesEmpty(c) ==
    /\ DOMAIN c.filePathCache = {}
    /\ DOMAIN c.localHierarchyCache = {}
    /\ DOMAIN c.mergedVectorCache = {}
    /\ DOMAIN c.mergedCache = {}

\* the keys the constructor leaves in the shallow-config table: the empty path, and the
\* path of the config file named on the command line
SeededPaths(r) ==
    {""} \cup (IF Truthy(r.options.configFile) THEN {CliConfigFile} ELSE {})

\* C21 as stated: after init() the four tables are empty, once or twice applied; after a
\* constructor the shallow-config table and the partial-merge table hold exactly one
\* entry each, the base config under the empty path, the other two tables none
InitAndSeedOnly ==
    calc.op = "run" =>
        /\ calc.step = "init" => TablesEmpty(cache)
        /\ calc.step = "construct" =>
              /\ DOMAIN cache.filePathCache = {""}
              /\ cache.filePathCache[""] = resolver.baseConfig
              /\ DOMAIN cache.mergedVectorCache = {""}
              /\ cache.mergedVectorCache[""] = resolver.baseConfig
              /\ DOMAIN cache.localHierarchyCache = {}
              /\ DOMAIN cache.mergedCache = {}

\* C21, amended: as above, except that the shallow-config table also holds the source of
\* the config file named on the command line, under its path, when there is one
InitAndSeed ==
    calc.op = "run" =>
        /\ calc.step = "init" => TablesEmpty(cache)
        /\ calc.step = "construct" =>
              /\ DOMAIN cache.filePathCache = SeededPaths(resolver)
              /\ cache.filePathCache[""] = resolver.baseConfig
              /\ Truthy(resolver.options.configFile) =>
                     cache.filePathCache[CliConfigFile] = resolver.useSpecificConfig
              /\ DOMAIN cache.mergedVectorCache = {""}
              /\ cache.mergedVectorCache[""] = resolver.baseConfig
              /\ DOMAIN cache.localHierarchyCache = {}
              /\ DOMAIN cache.mergedCache = {}

\* init() applied twice in a row after resolves had filled the tables
InitAndSeedWitness ==
    /\ calc.op = "run" /\ calc.step = "init" /\ calc.inits = 2
    /\ returned # {}
    /\ TablesEmpty(cache)

\* ------------------------------------------------------------ properties of the tables over a run

\* every entry of table m is an entry of table n
Keeps(m, n) == \A k \in DOMAIN m : k \in DOMAIN n /\ n[k] = m[k]

\* C22: a resolve call removes no entry of the final-merge table, of the local-hierarchy
\* table or of the partial-merge table and replaces none by a different value; only
\* init() (alone or in a constructor) does
WriteOnce ==
    [][(calc.op = "run" => calc'.step = "resolve") =>
           /\ Keeps(cache.mergedCache, cache'.mergedCache)
           /\ Keeps(cache.localHierarchyCache, cache'.localHierarchyCache)
           /\ Keeps(cache.mergedVectorCache, cache'.mergedVectorCache)]_vars

\* three resolves with three vectors, each config returned still in the final-merge table
\* and the partial merge of each vector still the one the latest fold would give
WriteOnceWitness ==
    /\ Cardinality({p[2] : p \in returned}) >= 3
    /\ Cardinality(DOMAIN cache.localHierarchyCache) >= 2
    /\ \A p \in returned :
          /\ getMergedConfig(cache.mergedCache, p[2]) = p[3]
          /\ getMergedVectorConfig(cache.mergedVectorCache, p[2])
                 = UncachedFold(cache.filePathCache, p[2])

\* ------------------------------------------------------------ properties of a failed resolve

\* what a caller sees of a getConfig call
Outcome(g) == <<g.threw, g.error.message, g.vector, g.config>>

\* C23: a resolve that fails with the no-configuration-found error leaves the
\* local-hierarchy, partial-merge and final-merge tables as they were, and the resolve of
\* any target after it has the outcome it would have had without the failed call
ErrorLeavesState ==
    [][(last' # last /\ last'.threw) =>
           /\ last'.error.messageTemplate = "no-config-found"
           /\ cache'.localHierarchyCache = cache.localHierarchyCache
           /\ cache'.mergedVectorCache = cache.mergedVectorCache
           /\ cache'.mergedCache = cache.mergedCache
           /\ \A f \in Files :
                  Outcome(getConfig(world, resolver', cache', f))
                      = Outcome(getConfig(world, resolver, cache, f))]_vars

\* a resolve has failed after others had filled the tables, and a resolve of a target in
\* a directory with a config succeeds next
ErrorLeavesStateWitness ==
    /\ last.file # "" /\ last.threw
    /\ returned # {}
    /\ DOMAIN cache.localHierarchyCache # {}
    /\ \E f \in Files : ~getConfig(world, resolver, cache, f).threw

\* ------------------------------------------------------------ properties of the objects

\* the addresses of the partial merges an earlier resolve stored
EarlierMerges(m) == {a \in DOMAIN m.published : a[1] = "mv"}

\* C24: after a resolve every object that existed before it (a source of the
\* shallow-config table, the base config, a merged config of a table) and every object the
\* resolve stored in a table holds what it held then; the object returned is the config
\* the resolve computes by value
SourcesImmutable ==
    (calc.op = "heap" /\ calc.done) =>
        /\ \A a \in DOMAIN calc.m.published : calc.m.heap[a] = calc.m.published[a]
        /\ calc.m.heap[calc.m.config] = getConfig(world, resolver, cache, calc.file).config

\* a resolve that resumed from a partial merge of an earlier resolve, merged two further
\* tokens and deleted keys from the results
SourcesImmutableWitness ==
    /\ calc.op = "heap" /\ calc.done
    /\ EarlierMerges(calc.m) # {}
    /\ \E a \in EarlierMerges(calc.m) :
          \E n \in 2..(Len(calc.vector) - 2) : a[2] = hash(SubSeq(calc.vector, 1, n))
    /\ calc.m.next > 4
    /\ ~Has(calc.m.heap[calc.m.mv[hash(calc.vector)]], "filePath")
    /\ \A a \in DOMAIN calc.m.published : calc.m.heap[a] = calc.m.published[a]

\* ------------------------------------------------------------ properties of the personal config

\* the config file of the personal directory
PersonalFile(w) == ConfigFileOf(Val(w.home))

\* the case of the fallback: no directory from the target's upward has a config the walk
\* uses (so the walk hits no entry of the hierarchy table either), no config file was
\* named on the command line, and a personal config exists
FallbackCase(w, r, directory) ==
    /\ \A d \in Range(Ancestors[directory]) : ~Usable(w, d)
    /\ ~Truthy(r.useSpecificConfig)
    /\ PersonalExists(w)

\* C35: getLocalConfigHierarchy returns the personal config as the only local source
\* exactly in the case of the fallback; otherwise the personal config is no local source
\* (unless the personal directory is the working directory, whose config the walk uses);
\* a fallback stores nothing in the hierarchy table
PersonalFallbackExact ==
    (last.file # "" /\ ~last.threw /\ resolver.useEslintrc) =>
        /\ FallbackCase(world, resolver, last.directory) =>
              /\ last.localConfigs = <<PersonalFile(world)>>
              /\ \A d \in Range(Ancestors[last.directory]) :
                    d \notin DOMAIN cache.localHierarchyCache
        /\ (~FallbackCase(world, resolver, last.directory)
                /\ Truthy(world.home) /\ Val(world.home) # Cwd) =>
              PersonalFile(world) \notin Range(last.localConfigs)
        /\ \A d \in DOMAIN cache.localHierarchyCache :
              (Truthy(world.home) /\ Val(world.home) # Cwd) =>
                  PersonalFile(world) \notin Range(cache.localHierarchyCache[d])

\* a target below the personal directory, whose config the walk skips, with no other
\* config above it: the personal config is the local hierarchy, and a later call for
\* the same directory falls back again
PersonalFallbackExactWitness ==
    /\ last.file = "/p/a/b/x.js" /\ ~last.threw /\ resolver.useEslintrc
    /\ world.home = S("/p/a")
    /\ FallbackCase(world, resolver, last.directory)
    /\ last.localConfigs = <<"/p/a/.eslintrc">>
    /\ \E p \in returned : p[1] = "/p/a/b/y.ts"
    /\ DOMAIN cache.localHierarchyCache = {}

\* ------------------------------------------------------------ properties of the cache keys

\* C34: two different vectors of getConfig calls have different cache keys, and only the
\* vector of the base source alone has the key the constructor seeds the base config
\* under
KeyUniqueness ==
    /\ \A p, q \in returned : p[2] # q[2] => hash(p[2]) # hash(q[2])
    /\ \A p \in returned : hash(p[2]) = "" => p[2] = <<S("")>>

\* ------------------------------------------------------------ properties of a resumed fold

\* the first token the fold of vector has to merge, given the partial-merge table mv, is
\* an override index
ResumesAtIndex(mv, vector) ==
    /\ NearestCached(mv, vector) \in 1..(Len(vector) - 1)
    /\ Tag(vector[NearestCached(mv, vector) + 1]) = "num"

\* the nearest string token before token i of the vector, token i included
KeyBefore(vector, i) == vector[Max({j \in 1..i : Tag(vector[j]) = "str"})]

\* what token i of the vector names: a source, or the block with that index in the
\* overrides of the source named by the nearest string token before it
BlockOrSource(fp, vector, i) ==
    IF Tag(vector[i]) = "str"
    THEN fp[Val(vector[i])]
    ELSE At(Get(fp[Val(KeyBefore(vector, i))], "overrides"), Val(vector[i]) + 1)

RECURSIVE ResumedFold(_, _, _, _)
\* config with the tokens of the vector from token i on merged in, each index taken from
\* the overrides of the source named by the nearest string token before it
ResumedFold(fp, vector, i, config) ==
    IF i > Len(vector) THEN config
    ELSE ResumedFold(fp, vector, i + 1,
                     StripKeys(merge(config, BlockOrSource(fp, vector, i), FALSE, FALSE)))

\* C33: a getConfigFromVector call whose longest cached prefix is followed by an override
\* index resolves that index, and every index up to the next string token, in the
\* overrides of the source named by the nearest string token before it, and finds a block
\* there
ResumeAtOverrideIndex ==
    [][(last'.file # "" /\ ~last'.cached
            /\ ResumesAtIndex(cache.mergedVectorCache, last'.vector))
        => /\ ~last'.threw
           /\ last'.fsConfig
               = ResumedFold(cache'.filePathCache, last'.vector,
                     NearestCached(cache.mergedVectorCache, last'.vector) + 1,
                     getMergedVectorConfig(cache.mergedVectorCache,
                         SubSeq(last'.vector, 1,
                                NearestCached(cache.mergedVectorCache, last'.vector))))]_vars

\* the proper prefixes of the vector with an entry in the partial-merge table
CachedPrefixes(vector) ==
    {n \in 1..(Len(vector) - 1) : hash(SubSeq(vector, 1, n)) \in DOMAIN cache.mergedVectorCache}

\* a resolve whose longest cached proper prefix ends behind a source other than the base
\* config and is followed by an index of that source's overrides
ResumeAtOverrideIndexWitness ==
    /\ last.file # "" /\ ~last.threw /\ ~last.cached
    /\ CachedPrefixes(last.vector) # {}
    /\ \E n \in CachedPrefixes(last.vector) :
          /\ \A m \in CachedPrefixes(last.vector) : m <= n
          /\ Tag(last.vector[n + 1]) = "num"
          /\ KeyBefore(last.vector, n) # S("")
          /\ Has(last.fsConfig, "rules")

\* ------------------------------------------------------------ properties of the hierarchy table

\* directory d is above directory e
Above(d, e) == d # e /\ d \in Range(Ancestors[e])

\* C32: every entry of the local-hierarchy table is a non-empty sequence of sources, the
\* farthest first, that ends with the source loaded from the entry's own directory; the
\* entry of a directory whose source an entry of a directory below it holds is a prefix
\* of that entry
HierarchyTableShape ==
    \A d \in DOMAIN cache.localHierarchyCache :
        \E entry \in {cache.localHierarchyCache[d]} :
            /\ Len(entry) > 0
            /\ entry[Len(entry)] = ConfigFileOf(d)
            /\ \A i \in 1..Len(entry) : entry[i] \in DOMAIN cache.filePathCache
            /\ \A i, j \in 1..Len(entry) :
                  i < j => Above(Dirname(entry[i]), Dirname(entry[j]))
            /\ \A e \in DOMAIN cache.localHierarchyCache :
                  (Above(d, e) /\ ConfigFileOf(d) \in Range(cache.localHierarchyCache[e]))
                      => entry = SubSeq(cache.localHierarchyCache[e], 1, Len(entry))

\* the table holds an entry of three sources and the entries of the two directories
\* above, each a proper prefix of the next
HierarchyTableShapeWitness ==
    /\ {"/p", "/p/a", "/p/a/b"} \subseteq DOMAIN cache.localHierarchyCache
    /\ Len(cache.localHierarchyCache["/p/a/b"]) = 3
    /\ Len(cache.localHierarchyCache["/p/a"]) = 2
    /\ Len(cache.localHierarchyCache["/p"]) = 1
    /\ last.cached = FALSE /\ last.file = "/p/a/b/x.js"
    /\ Cardinality(returned) > 1

\* ------------------------------------------------------------ properties of rule entries

\* the entry a config gives for rule r1, undefined without one
RuleEntry(config) == Get(Get(config, "rules"), "r1")

\* C26: when the later source gives a rule as an array of more than one element, the
\* merged entry of the rule is that array: no element of the earlier entry survives
RuleArrayReplacement ==
    MergeDone =>
        ((IsArray(RuleEntry(MergeB)) /\ Len(Val(RuleEntry(MergeB))) > 1)
            => RuleEntry(calc.acc) = RuleEntry(MergeB))

\* a two-element array merged over a longer array with an options object: the merged
\* entry is the later array
RuleArrayReplacementWitness ==
    /\ MergeDone
    /\ IsArray(RuleEntry(MergeA)) /\ IsArray(RuleEntry(MergeB))
    /\ Len(Val(RuleEntry(MergeB))) = 2
    /\ Len(Val(RuleEntry(MergeA))) = 3
    /\ TypeofObject(At(RuleEntry(MergeA), 2))
    /\ RuleEntry(calc.acc) = RuleEntry(MergeB)

\* a scalar severity, or an array that holds one only
SeverityOnly(e) == e # Undef /\ (IsScalar(e) \/ (IsArray(e) /\ Len(Val(e)) = 1))

\* the severity of a severity-only entry
LaterSeverity(e) == IF IsArray(e) THEN At(e, 1) ELSE e

\* C27: when the earlier source gives a rule as an array of a severity and options and
\* the later one as a scalar severity or a one-element array, the merged entry is the
\* earlier array with its first element replaced by the later severity
SeverityOnlyOverride ==
    MergeDone =>
        ((IsArray(RuleEntry(MergeA)) /\ Len(Val(RuleEntry(MergeA))) > 0
              /\ SeverityOnly(RuleEntry(MergeB)))
            => RuleEntry(calc.acc)
                   = A([Val(RuleEntry(MergeA)) EXCEPT ![1] = LaterSeverity(RuleEntry(MergeB))]))

\* a one-element array merged over an array with options, the severity changing and the
\* options kept
SeverityOnlyOverrideWitness ==
    /\ MergeDone
    /\ IsArray(RuleEntry(MergeA)) /\ Len(Val(RuleEntry(MergeA))) = 3
    /\ IsArray(RuleEntry(MergeB)) /\ Len(Val(RuleEntry(MergeB))) = 1
    /\ At(RuleEntry(MergeB), 1) # At(RuleEntry(MergeA), 1)
    /\ Len(Val(RuleEntry(calc.acc))) = 3
    /\ At(RuleEntry(calc.acc), 1) = At(RuleEntry(MergeB), 1)
    /\ At(RuleEntry(calc.acc), 3) = At(RuleEntry(MergeA), 3)

\* ------------------------------------------------------------ properties of environments

\* the places in env of the enabled environments the registry knows that contribute to
\* section
Contributors(env, section) ==
    { i \in 1..Len(Val(env)) :
        /\ Truthy(Val(env)[i][2])
        /\ KeySet(Get(EnvironmentsGet(Val(env)[i][1]), section)) # {} }

\* what the environment at place i of env contributes to section
Contribution(env, section, i) == Get(EnvironmentsGet(Val(env)[i][1]), section)

\* the last contributor of key k to section
LastContributor(env, section, k) ==
    CHOOSE i \in Contributors(env, section) :
        /\ k \in KeySet(Contribution(env, section, i))
        /\ \A j \in Contributors(env, section) :
              k \in KeySet(Contribution(env, section, j)) => j <= i

\* section of the environment config is the shallow union of the contributions, the last
\* contributor of a key giving its value
ShallowUnion(env, envConfig, section) ==
    /\ KeySet(Get(envConfig, section))
           = UNION { KeySet(Contribution(env, section, i)) : i \in Contributors(env, section) }
    /\ \A k \in KeySet(Get(envConfig, section)) :
          Get(Get(envConfig, section), k)
              = Get(Contribution(env, section, LastContributor(env, section, k)), k)

\* C28: the globals and parserOptions of createEnvironmentConfig(env) are the shallow
\* union of the contributions of the enabled environments the registry knows, a later
\* one winning on a key; a disabled or unknown environment contributes nothing and
\* raises no error; the result's env is the given env
EnvironmentUnion ==
    (calc.op = "env" /\ calc.done) =>
        /\ calc.envConfig # Throw
        /\ KeySet(calc.envConfig) = {"globals", "env", "rules", "parserOptions"}
        /\ ShallowUnion(calc.env, calc.envConfig, "globals")
        /\ ShallowUnion(calc.env, calc.envConfig, "parserOptions")
        /\ Get(calc.envConfig, "env") = calc.env
        /\ Get(calc.envConfig, "rules") = EmptyObj

\* node after browser with a disabled and an unknown environment beside them: the global
\* both declare has node's value
EnvironmentUnionWitness ==
    /\ calc.op = "env" /\ calc.done
    /\ \E i, j \in Contributors(calc.env, "globals") :
          /\ i < j
          /\ Val(calc.env)[i][1] = "browser" /\ Val(calc.env)[j][1] = "node"
    /\ \E i \in 1..Len(Val(calc.env)) :
          Val(calc.env)[i][1] = "mocha" /\ Truthy(Val(calc.env)[i][2])
    /\ Get(Get(calc.envConfig, "globals"), "window") = B(TRUE)
    /\ Get(Get(calc.envConfig, "globals"), "g") = B(FALSE)

\* ------------------------------------------------------------ properties of the command line config

\* the keys the constructor may give the command line config
CliConfigKeys == {"env", "rules", "globals", "parserOptions", "plugins"}

\* the caller gave the option that key k of the command line config is built from
Supplied(options, k) ==
    CASE k = "env" -> Truthy(options.envs)
      [] k = "rules" -> Truthy(options.rules)
      [] k = "globals" -> Truthy(options.globals)
      [] k = "parserOptions" -> Truthy(options.parserOptions)
      [] k = "plugins" -> Truthy(options.plugins)
      [] OTHER -> FALSE

\* C29: the command line config has a key only when the caller supplied its option; with
\* none of the options it has no keys, and merging it leaves the filesystem result as it
\* is
CliConfigSupplied ==
    /\ \A k \in KeySet(resolver.cliConfig) : Supplied(resolver.options, k)
    /\ (\A k \in CliConfigKeys : ~Supplied(resolver.options, k)) =>
          /\ resolver.cliConfig = EmptyObj
          /\ (last.file # "" /\ ~last.threw /\ ~last.cached) =>
                merge(last.fsConfig, resolver.cliConfig, FALSE, FALSE) = last.fsConfig

\* ------------------------------------------------------------ properties of step 4

\* the filesystem merge fsConfig after steps 2 and 3 of getConfig
Pinned(r, fsConfig) == MergeParser(r, MergeCli(fsConfig, r.cliConfig))

\* the env mapping of config has an entry whose flag is truthy
EnablesEnvironment(config) ==
    /\ IsPlainObject(Get(config, "env"))
    /\ \E i \in 1..Len(Val(Get(config, "env"))) : Truthy(Val(Get(config, "env"))[i][2])

\* C30: when neither a source nor the command line enables an environment, getConfig
\* returns the config of steps 1 to 3: the keys of that config with their values, no key
\* of the empty environment skeleton added
EnvExpansionConditional ==
    (last.file # "" /\ ~last.threw /\ ~last.cached
         /\ ~EnablesEnvironment(Pinned(resolver, last.fsConfig)))
        => SameMapping(last.config, Pinned(resolver, last.fsConfig))

\* ------------------------------------------------------------ properties of two resolvers

\* C25: whatever a second instance has constructed or resolved in between, a getConfig
\* call of the first instance fails or succeeds, and returns the config, as it would if
\* the first instance were the only one
ResolverIsolation ==
    (calc.op = "two" /\ calc.who = 1) => <<last.threw, last.config>> = calc.aloneOutcome

====
